---- MODULE Spec2Model ----
(***************************************************************************)
(* A model of krafna's query executor (src/src/libs/executor.rs) and of    *)
(* the Markdown ingester's cache (src/src/libs/data_fetcher/               *)
(* markdown_fetcher.rs).                                                   *)
(*                                                                         *)
(* Strings are sequences of one-character strings, so that split('.'),     *)
(* lexicographic comparison and timestamp formatting are computed and not  *)
(* assumed.  Numbers are exact rationals <<n, d>> in lowest terms.         *)
(***************************************************************************)
EXTENDS Integers, Sequences, FiniteSets, TLC

VARIABLES
    expression,   \* the infix token sequence (evaluate_expression, WHERE)
    evalResult,   \* evaluate_expression: its Result, or NotRun
    fetched,      \* the records handed to an executor stage
    records,      \* the records as the stage leaves them
    orderBy,      \* execute_order_by: the OrderByFieldOption list
    selectFields, \* execute_select: the selected dotted paths
    outcome,      \* the stage's result: "NotRun", "Ok" or the error's kind
    request,      \* execute_query: the parsed query and the three overrides
    fs,           \* the Markdown files on disk, by path
    cacheFile,    \* markdown.cache: path -> MarkdownFileInfo
    cacheDirOk,   \* whether the cache file can be created and opened
    prevRun,      \* the ingestion before the last one
    lastRun,      \* the last ingestion: what it saw, parsed and returned
    changes,      \* number of file-system changes so far
    elsewhere,    \* the same relative paths under the other working directory
    queryText,    \* the text handed to the parser
    cursor,       \* PeekableDeque.index
    parsed,       \* the parser's Result, or NotParsed
    regexCache,   \* REGEX_CACHE: the compiled patterns, least recently used first
    likeResult,   \* the evaluations of LIKE and NOT LIKE made so far
    document,     \* the Markdown events of a file's body
    fileInfo,     \* parse_markdown_content: the links and tasks, once extracted
    invocations   \* the ingestions under way, each with its position and locals

evalVars == <<expression, evalResult>>
execVars == <<fetched, records, orderBy, selectFields, outcome, request>>
cacheVars == <<fs, cacheFile, cacheDirOk, prevRun, lastRun, changes, elsewhere>>
parseVars == <<queryText, cursor, parsed>>
likeVars == <<regexCache, likeResult>>
markdownVars == <<document, fileInfo>>
raceVars == <<invocations>>
vars == <<expression, evalResult, fetched, records, orderBy, selectFields, outcome, request,
          fs, cacheFile, cacheDirOk, prevRun, lastRun, changes, elsewhere,
          queryText, cursor, parsed, regexCache, likeResult,
          document, fileInfo, invocations>>

(***************************************************************************)
(* Bounds of the model.                                                    *)
(***************************************************************************)
MaxExprLen == 7        \* longest token sequence handed to evaluate_expression
MaxRecords == 3        \* most records handed to an executor stage
MaxChanges == 1        \* most file-system changes around the ingestions
MaxOperatorText == 4   \* longest text handed to try_parse_operator

NotRun == [ok |-> FALSE, val |-> [t |-> "Null", v |-> 0], err |-> "NotRun"]

(***************************************************************************)
(* Characters and strings.                                                 *)
(***************************************************************************)
CharCode(c) ==
    CASE c = "+" -> 43
      [] c = "-" -> 45
      [] c = "." -> 46
      [] c = "0" -> 48
      [] c = "1" -> 49
      [] c = "2" -> 50
      [] c = "3" -> 51
      [] c = "4" -> 52
      [] c = "5" -> 53
      [] c = "6" -> 54
      [] c = "7" -> 55
      [] c = "8" -> 56
      [] c = "9" -> 57
      [] c = ":" -> 58
      [] c = "T" -> 84
      [] c = "a" -> 97
      [] c = "b" -> 98
      [] c = "c" -> 99
      [] c = "f" -> 102
      [] c = "n" -> 110
      [] c = "p" -> 112
      [] c = "x" -> 120
      [] c = "z" -> 122

\* Ordering of two integers.
IntCmp(a, b) == IF a < b THEN "Less" ELSE IF a > b THEN "Greater" ELSE "Equal"

\* str::cmp: byte-wise lexicographic order; "Less", "Equal" or "Greater".
RECURSIVE StrCmp(_, _)
FirstDiffers(c, s, u) == IF c = "Equal" THEN StrCmp(Tail(s), Tail(u)) ELSE c

StrCmp(s, u) ==
    IF Len(s) = 0 /\ Len(u) = 0 THEN "Equal"
    ELSE IF Len(s) = 0 THEN "Less"
    ELSE IF Len(u) = 0 THEN "Greater"
    ELSE FirstDiffers(IntCmp(CharCode(Head(s)), CharCode(Head(u))), s, u)

\* str::contains for a string pattern.
StrContains(s, u) ==
    \E i \in 1..(Len(s) + 1) :
        /\ i + Len(u) - 1 <= Len(s)
        /\ SubSeq(s, i, i + Len(u) - 1) = u

(***************************************************************************)
(* FieldValue: Null, String, Number, Bool.                                 *)
(***************************************************************************)
Null == [t |-> "Null", v |-> 0]
StringV(s) == [t |-> "String", v |-> s]
BoolV(b) == [t |-> "Bool", v |-> b]

Abs(x) == IF x < 0 THEN 0 - x ELSE x

RECURSIVE Gcd(_, _)
Gcd(a, b) == IF b = 0 THEN a ELSE Gcd(b, a % b)

\* The rational n/d (d # 0) in lowest terms with a positive denominator.
Reduced(n, d, g) == [t |-> "Number", v |-> <<n \div g, d \div g>>]

Rational(n, d) ==
    IF d < 0 THEN Reduced(0 - n, 0 - d, Gcd(Abs(n), Abs(d)))
    ELSE Reduced(n, d, Gcd(Abs(n), Abs(d)))

NumberV(n) == Rational(n, 1)

RECURSIVE IntPow(_, _)
IntPow(b, e) == IF e = 0 THEN 1 ELSE b * IntPow(b, e - 1)

\* FieldValue equality (PartialEq): structural.
FieldValueEq(l, r) == l.t = r.t /\ l.v = r.v

\* FieldValue::partial_cmp: an order within one variant only; "None" across
\* variants.
PartialCmp(l, r) ==
    IF l.t # r.t THEN "None"
    ELSE CASE l.t = "Null" -> "Equal"
           [] l.t = "Number" -> IntCmp(l.v[1] * r.v[2], r.v[1] * l.v[2])
           [] l.t = "Bool" ->
                IF l.v = r.v THEN "Equal" ELSE IF r.v THEN "Less" ELSE "Greater"
           [] l.t = "String" -> StrCmp(l.v, r.v)

Ok(v) == [ok |-> TRUE, val |-> v, err |-> "None"]
Err(e) == [ok |-> FALSE, val |-> Null, err |-> e]

\* FieldValue::add: numeric add, string concatenation.
FieldValueAdd(l, r) ==
    IF l.t = "Number" /\ r.t = "Number"
    THEN Ok(Rational(l.v[1] * r.v[2] + r.v[1] * l.v[2], l.v[2] * r.v[2]))
    ELSE IF l.t = "String" /\ r.t = "String" THEN Ok(StringV(l.v \o r.v))
    ELSE Err("Type")

\* FieldValue::subtract: numeric subtract.
FieldValueSubtract(l, r) ==
    IF l.t = "Number" /\ r.t = "Number"
    THEN Ok(Rational(l.v[1] * r.v[2] - r.v[1] * l.v[2], l.v[2] * r.v[2]))
    ELSE Err("Type")

\* FieldValue::multiply: numeric only.
FieldValueMultiply(l, r) ==
    IF l.t = "Number" /\ r.t = "Number"
    THEN Ok(Rational(l.v[1] * r.v[1], l.v[2] * r.v[2]))
    ELSE Err("Type")

\* FieldValue::divide: numeric only.  Modelled for a non-zero divisor.
FieldValueDivide(l, r) ==
    IF l.t = "Number" /\ r.t = "Number"
    THEN CASE r.v[1] # 0 -> Ok(Rational(l.v[1] * r.v[2], l.v[2] * r.v[1]))
    ELSE Err("Type")

\* FieldValue::floor_divide: numeric only, the quotient rounded down.
\* Modelled for a non-zero divisor.
FieldValueFloorDivide(l, r) ==
    IF l.t = "Number" /\ r.t = "Number"
    THEN CASE r.v[1] # 0 ->
                Ok(NumberV(Rational(l.v[1] * r.v[2], l.v[2] * r.v[1]).v[1]
                               \div Rational(l.v[1] * r.v[2], l.v[2] * r.v[1]).v[2]))
    ELSE Err("Type")

\* FieldValue::power: numeric only.  Modelled for an integer exponent and,
\* when the exponent is negative, a non-zero base.
FieldValuePower(l, r) ==
    IF l.t = "Number" /\ r.t = "Number"
    THEN CASE r.v[2] = 1 /\ r.v[1] >= 0 ->
                Ok(Rational(IntPow(l.v[1], r.v[1]), IntPow(l.v[2], r.v[1])))
           [] r.v[2] = 1 /\ r.v[1] < 0 /\ l.v[1] # 0 ->
                Ok(Rational(IntPow(l.v[2], 0 - r.v[1]), IntPow(l.v[1], 0 - r.v[1])))
    ELSE Err("Type")

\* FieldValue::contains, for strings: substring.
FieldValueContains(hay, needle) ==
    hay.t = "String" /\ needle.t = "String" /\ StrContains(hay.v, needle.v)

(***************************************************************************)
(* ExpressionElement.                                                      *)
(***************************************************************************)
OpenedBracket == [k |-> "OpenedBracket"]
ClosedBracket == [k |-> "ClosedBracket"]
OperatorEl(op) == [k |-> "Operator", op |-> op]
FieldNameEl(name) == [k |-> "FieldName", name |-> name]
FieldValueEl(fv) == [k |-> "FieldValue", v |-> fv]

(***************************************************************************)
(* Pod: the record values.  A Hash is a function from keys to Pods.        *)
(***************************************************************************)
PodNull == [t |-> "Null", v |-> 0]
PodString(s) == [t |-> "String", v |-> s]
PodInteger(n) == [t |-> "Integer", v |-> n]
PodBoolean(b) == [t |-> "Boolean", v |-> b]
PodHash(h) == [t |-> "Hash", v |-> h]
PodArray(a) == [t |-> "Array", v |-> a]

\* Index of the first occurrence of character c in s, 0 when there is none.
FirstIndexOf(s, c) ==
    IF \E i \in 1..Len(s) : s[i] = c
    THEN CHOOSE i \in 1..Len(s) : s[i] = c /\ \A j \in 1..(i - 1) : s[j] # c
    ELSE 0

\* str::split(c): the segments between the occurrences of c.
RECURSIVE Split(_, _)
Split(s, c) ==
    LET i == FirstIndexOf(s, c)
    IN  IF i = 0 THEN <<s>>
        ELSE <<SubSeq(s, 1, i - 1)>> \o Split(SubSeq(s, i + 1, Len(s)), c)

\* get_nested_pod: follow the dotted path through nested hashes.
RECURSIVE WalkKeys(_, _)
WalkKeys(keys, current) ==
    IF Len(keys) = 0 THEN [some |-> TRUE, pod |-> current]
    ELSE IF current.t # "Hash" THEN [some |-> FALSE, pod |-> PodNull]
    ELSE IF Head(keys) \notin DOMAIN current.v THEN [some |-> FALSE, pod |-> PodNull]
    ELSE WalkKeys(Tail(keys), current.v[Head(keys)])

get_nested_pod(field_name, data) == WalkKeys(Split(field_name, "."), data)

\* get_field_value: the FieldValue of a path in a record; Null when the path
\* leads nowhere.  Arrays and hashes are outside the modelled values.
pod_to_field_value(found) ==
    IF ~found.some THEN Null
    ELSE CASE found.pod.t = "String" -> StringV(found.pod.v)
           [] found.pod.t = "Integer" -> NumberV(found.pod.v)
           [] found.pod.t = "Boolean" -> BoolV(found.pod.v)
           [] found.pod.t = "Null" -> Null

get_field_value(field_name, data) == pod_to_field_value(get_nested_pod(field_name, data))

(***************************************************************************)
(* Characters and ASCII texts.                                             *)
(***************************************************************************)
UpperCase == <<"A", "B", "C", "D", "E", "F", "G", "H", "I", "J", "K", "L", "M", "N", "O", "P", "Q", "R", "S", "T", "U", "V", "W", "X", "Y", "Z">>
LowerCase == <<"a", "b", "c", "d", "e", "f", "g", "h", "i", "j", "k", "l", "m", "n", "o", "p", "q", "r", "s", "t", "u", "v", "w", "x", "y", "z">>
Numeric == {"0", "1", "2", "3", "4", "5", "6", "7", "8", "9"}

\* The place of c in the alphabet, 0 when it is not in it.
LetterIndex(c, alphabet) ==
    IF \E k \in 1..26 : alphabet[k] = c THEN CHOOSE k \in 1..26 : alphabet[k] = c ELSE 0

to_ascii_uppercase(c) ==
    IF LetterIndex(c, LowerCase) = 0 THEN c ELSE UpperCase[LetterIndex(c, LowerCase)]
to_ascii_lowercase(c) ==
    IF LetterIndex(c, UpperCase) = 0 THEN c ELSE LowerCase[LetterIndex(c, UpperCase)]

is_alphabetic(c) == LetterIndex(c, UpperCase) # 0 \/ LetterIndex(c, LowerCase) # 0
is_numeric(c) == c \in Numeric
is_alphanumeric(c) == is_alphabetic(c) \/ is_numeric(c)
is_whitespace(c) == c \in {" ", "\t", "\n"}

\* str::to_uppercase and str::to_lowercase on ASCII text.
str_to_uppercase(s) == [k \in 1..Len(s) |-> to_ascii_uppercase(s[k])]

Digit(n) ==
    CASE n = 0 -> "0" [] n = 1 -> "1" [] n = 2 -> "2" [] n = 3 -> "3" [] n = 4 -> "4"
      [] n = 5 -> "5" [] n = 6 -> "6" [] n = 7 -> "7" [] n = 8 -> "8" [] n = 9 -> "9"

(***************************************************************************)
(* Function calls in expressions (executor.rs, execute_function): DATE and *)
(* DATEADD over chrono's NaiveDateTime, here a record of year, month, day, *)
(* second of the day and nanosecond.                                       *)
(***************************************************************************)
\* `number as i32` and `number as i64`: the integer part of the f64.
as_i32(number) ==
    IF number.v[1] >= 0 THEN number.v[1] \div number.v[2]
    ELSE 0 - ((0 - number.v[1]) \div number.v[2])

\* i32 `/` and `%`: the quotient rounds towards zero, the remainder has the
\* sign of the dividend.
i32_div(a, b) == IF a >= 0 THEN a \div b ELSE 0 - ((0 - a) \div b)
i32_rem(a, b) == a - b * i32_div(a, b)

\* `as u32` of an i32: a negative number wraps to one above 2^31.  Those
\* are beyond the integers of the model; each is stood for by a number
\* above the largest day, month and year.
as_u32(n) == IF n >= 0 THEN n ELSE 2147483647 + n + 1

NaiveDateTime(year, month, day, secs, nanos) ==
    [year |-> year, month |-> month, day |-> day, secs |-> secs, nanos |-> nanos]
NoDate == [some |-> FALSE, date |-> NaiveDateTime(0, 0, 0, 0, 0)]
SomeDate(date) == [some |-> TRUE, date |-> date]

is_leap_year(year) == year % 4 = 0 /\ (year % 100 # 0 \/ year % 400 = 0)

days_in_month(year, month) ==
    CASE month \in {4, 6, 9, 11} -> 30
      [] month = 2 -> IF is_leap_year(year) THEN 29 ELSE 28
      [] OTHER -> 31

\* NaiveDate::from_ymd_opt: Some for a day of the calendar, in chrono's
\* range of years.
valid_date(year, month, day) ==
    /\ year \in (0 - 262143)..262142
    /\ month \in 1..12
    /\ day >= 1
    /\ day <= days_in_month(year, month)

\* Datelike::with_year and Datelike::with_month: None when the date with
\* the one field replaced does not exist.
with_year(date, year) ==
    IF valid_date(year, date.month, date.day)
    THEN SomeDate([date EXCEPT !.year = year]) ELSE NoDate

with_month(date, month) ==
    IF valid_date(date.year, month, date.day)
    THEN SomeDate([date EXCEPT !.month = month]) ELSE NoDate

\* The MONTH arm, from months_to_add = month + number on.
add_months(date, months_to_add) ==
    IF with_year(date, date.year + i32_div(months_to_add - 1, 12)).some
    THEN with_month(with_year(date, date.year + i32_div(months_to_add - 1, 12)).date,
                    as_u32(i32_rem(months_to_add - 1, 12) + 1))
    ELSE NoDate

next_day(date) ==
    IF date.day < days_in_month(date.year, date.month)
    THEN [date EXCEPT !.day = date.day + 1]
    ELSE IF date.month < 12 THEN [date EXCEPT !.month = date.month + 1, !.day = 1]
    ELSE [date EXCEPT !.year = date.year + 1, !.month = 1, !.day = 1]

prev_day(date) ==
    IF date.day > 1 THEN [date EXCEPT !.day = date.day - 1]
    ELSE IF date.month > 1
    THEN [date EXCEPT !.month = date.month - 1,
                      !.day = days_in_month(date.year, date.month - 1)]
    ELSE [date EXCEPT !.year = date.year - 1, !.month = 12, !.day = 31]

\* checked_add_signed of whole days, of seconds and of nanoseconds: None
\* when the year leaves chrono's range.
RECURSIVE add_days(_, _)
add_days(date, days) ==
    IF days = 0
    THEN IF valid_date(date.year, date.month, date.day) THEN SomeDate(date) ELSE NoDate
    ELSE IF days > 0
    THEN IF days <= days_in_month(date.year, date.month) - date.day
         THEN add_days([date EXCEPT !.day = date.day + days], 0)
         ELSE add_days(next_day([date EXCEPT !.day = days_in_month(date.year, date.month)]),
                       days - (days_in_month(date.year, date.month) - date.day) - 1)
    ELSE IF 0 - days < date.day
         THEN add_days([date EXCEPT !.day = date.day + days], 0)
         ELSE add_days(prev_day([date EXCEPT !.day = 1]), days + date.day)

add_seconds_total(date, total) ==
    add_days([date EXCEPT !.secs = total % 86400], total \div 86400)
add_seconds(date, seconds) == add_seconds_total(date, date.secs + seconds)

add_nanos_total(date, total) ==
    add_seconds([date EXCEPT !.nanos = total % 1000000000], total \div 1000000000)
add_nanos(date, nanos) == add_nanos_total(date, date.nanos + nanos)

Intervals ==
    {<<"Y", "E", "A", "R">>, <<"M", "O", "N", "T", "H">>, <<"W", "E", "E", "K">>, <<"D", "A", "Y">>, <<"H", "O", "U", "R">>, <<"M", "I", "N", "U", "T", "E">>, <<"S", "E", "C", "O", "N", "D">>, <<"M", "I", "L", "I", "S", "E", "C", "O", "N", "D">>,
     <<"M", "I", "C", "R", "O", "S", "E", "C", "O", "N", "D">>, <<"N", "A", "N", "O", "S", "E", "C", "O", "N", "D">>}

\* The match on the upper-cased interval.
date_add_interval(interval, date, number) ==
    CASE interval = <<"Y", "E", "A", "R">> -> with_year(date, date.year + number)
      [] interval = <<"M", "O", "N", "T", "H">> -> add_months(date, date.month + number)
      [] interval = <<"W", "E", "E", "K">> -> add_days(date, 7 * number)
      [] interval = <<"D", "A", "Y">> -> add_days(date, number)
      [] interval = <<"H", "O", "U", "R">> -> add_seconds(date, 3600 * number)
      [] interval = <<"M", "I", "N", "U", "T", "E">> -> add_seconds(date, 60 * number)
      [] interval = <<"S", "E", "C", "O", "N", "D">> -> add_seconds(date, number)
      [] interval = <<"M", "I", "L", "I", "S", "E", "C", "O", "N", "D">> -> add_nanos(date, 1000000 * number)
      [] interval = <<"M", "I", "C", "R", "O", "S", "E", "C", "O", "N", "D">> -> add_nanos(date, 1000 * number)
      [] OTHER -> add_nanos(date, number)

DigitValue(c) == CHOOSE n \in 0..9 : Digit(n) = c
AllNumeric(t, from, to) == \A k \in from..to : is_numeric(t[k])
TwoAt(t, k) == 10 * DigitValue(t[k]) + DigitValue(t[k + 1])
FourAt(t, k) == 100 * TwoAt(t, k) + TwoAt(t, k + 2)
TwoDigits(n) == <<Digit(n \div 10), Digit(n % 10)>>
FourDigits(n) == TwoDigits(n \div 100) \o TwoDigits(n % 100)

\* The two formats the executor names.
DATE_FORMAT == <<"%", "Y", "-", "%", "m", "-", "%", "d", "T", "%", "H", ":", "%", "M", ":", "%", "S">>
DATE_ONLY_FORMAT == <<"%", "Y", "-", "%", "m", "-", "%", "d">>

\* The text starts with a date written as %Y-%m-%d.
DateShaped(t) ==
    /\ Len(t) >= 10
    /\ AllNumeric(t, 1, 4) /\ t[5] = "-" /\ AllNumeric(t, 6, 7) /\ t[8] = "-"
    /\ AllNumeric(t, 9, 10)
    /\ valid_date(FourAt(t, 1), TwoAt(t, 6), TwoAt(t, 9))

\* From the eleventh character on the text is a time written as T%H:%M:%S.
TimeShaped(t) ==
    /\ Len(t) >= 19
    /\ t[11] = "T" /\ AllNumeric(t, 12, 13) /\ t[14] = ":" /\ AllNumeric(t, 15, 16)
    /\ t[17] = ":" /\ AllNumeric(t, 18, 19)
    /\ TwoAt(t, 12) < 24 /\ TwoAt(t, 15) < 60 /\ TwoAt(t, 18) < 60

DateOf(t) == NaiveDateTime(FourAt(t, 1), TwoAt(t, 6), TwoAt(t, 9), 0, 0)
DateTimeOf(t) ==
    NaiveDateTime(FourAt(t, 1), TwoAt(t, 6), TwoAt(t, 9),
                  3600 * TwoAt(t, 12) + 60 * TwoAt(t, 15) + TwoAt(t, 18), 0)

\* NaiveDate::parse_from_str(..).and_hms_opt(0, 0, 0): the date of a text
\* in the format; a time the format asks for is read and dropped.
NaiveDate_parse_from_str(input, format) ==
    IF format = DATE_ONLY_FORMAT /\ Len(input) = 10 /\ DateShaped(input)
    THEN SomeDate(DateOf(input))
    ELSE IF format = DATE_FORMAT /\ Len(input) = 19 /\ DateShaped(input) /\ TimeShaped(input)
    THEN SomeDate(DateOf(input))
    ELSE NoDate

NaiveDateTime_parse_from_str(input, format) ==
    IF format = DATE_FORMAT /\ Len(input) = 19 /\ DateShaped(input) /\ TimeShaped(input)
    THEN SomeDate(DateTimeOf(input))
    ELSE NoDate

\* str::parse::<DateTime<Utc>>().naive_utc() on a text that ends in Z.
DateTimeUtc_parse(input) ==
    IF Len(input) = 20 /\ DateShaped(input) /\ TimeShaped(input) /\ input[20] = "Z"
    THEN SomeDate(DateTimeOf(input))
    ELSE NoDate

NoFormat == [some |-> FALSE, ok |-> TRUE, format |-> <<>>]
SomeFormat(format) == [some |-> TRUE, ok |-> TRUE, format |-> format]
BadFormat == [some |-> FALSE, ok |-> FALSE, format |-> <<>>]

parse_naive_datetime(input, format) ==
    IF format.some
    THEN IF NaiveDate_parse_from_str(input, format.format).some
         THEN NaiveDate_parse_from_str(input, format.format)
         ELSE NaiveDateTime_parse_from_str(input, format.format)
    ELSE IF DateTimeUtc_parse(input).some THEN DateTimeUtc_parse(input)
    ELSE IF NaiveDateTime_parse_from_str(input, DATE_FORMAT).some
    THEN NaiveDateTime_parse_from_str(input, DATE_FORMAT)
    ELSE NaiveDate_parse_from_str(input, DATE_ONLY_FORMAT)

\* NaiveDateTime::format(DATE_FORMAT).to_string()
format_datetime(date) ==
    FourDigits(date.year) \o <<"-">> \o TwoDigits(date.month) \o <<"-">> \o TwoDigits(date.day)
    \o <<"T">> \o TwoDigits(date.secs \div 3600) \o <<":">>
    \o TwoDigits((date.secs % 3600) \div 60) \o <<":">> \o TwoDigits(date.secs % 60)

\* An argument's value: a field name is looked up in the record.
argument_value(arg, data) ==
    IF arg.t = "FieldName" THEN get_field_value(arg.v, data) ELSE arg

\* The optional format argument, the n-th.
format_argument(args, n, data) ==
    IF Len(args) < n THEN NoFormat
    ELSE IF argument_value(args[n], data).t = "String"
    THEN SomeFormat(argument_value(args[n], data).v)
    ELSE IF args[n].t = "FieldName" /\ argument_value(args[n], data).t = "Null" THEN NoFormat
    ELSE BadFormat

DateAddResult(result) ==
    IF result.some THEN Ok(StringV(format_datetime(result.date))) ELSE Err("FunctionRange")

DateAddParsed(interval, number, date) ==
    IF ~date.some THEN Err("FunctionDate")
    ELSE IF interval \notin Intervals THEN Err("FunctionInterval")
    ELSE DateAddResult(date_add_interval(interval, date.date, number))

DateAddWithArguments(interval, number, date_str, format) ==
    IF interval.t # "String" \/ number.t # "Number" \/ date_str.t # "String" \/ ~format.ok
    THEN Err("FunctionArgument")
    ELSE DateAddParsed(str_to_uppercase(interval.v), as_i32(number),
                       parse_naive_datetime(date_str.v, format))

execute_function_date_add(func, data) ==
    IF Len(func.args) # 3 /\ Len(func.args) # 4 THEN Err("FunctionArgument")
    ELSE DateAddWithArguments(argument_value(func.args[1], data),
                              argument_value(func.args[2], data),
                              argument_value(func.args[3], data),
                              format_argument(func.args, 4, data))

DateParsed(date) ==
    IF date.some THEN Ok(StringV(format_datetime(date.date))) ELSE Err("FunctionDate")

DateWithArguments(date_str, format) ==
    IF date_str.t # "String" \/ ~format.ok THEN Err("FunctionArgument")
    ELSE DateParsed(parse_naive_datetime(date_str.v, format))

execute_function_date(func, data) ==
    IF Len(func.args) # 1 /\ Len(func.args) # 2 THEN Err("FunctionArgument")
    ELSE DateWithArguments(argument_value(func.args[1], data),
                           format_argument(func.args, 2, data))

execute_function(func, data) ==
    CASE str_to_uppercase(func.name) = <<"D", "A", "T", "E", "A", "D", "D">> -> execute_function_date_add(func, data)
      [] str_to_uppercase(func.name) = <<"D", "A", "T", "E">> -> execute_function_date(func, data)
      [] OTHER -> Err("FunctionTodo")

(***************************************************************************)
(* evaluate_expression: shunting-yard over the infix token sequence.       *)
(***************************************************************************)
operator_precedence_and_as_or(op) ==
    CASE op = "Or" -> 0
      [] op = "And" -> 0
      [] op \in {"In", "Like", "NotLike", "Eq", "Neq", "Lt", "Lte", "Gt", "Gte"} -> 2
      [] op \in {"Plus", "Minus"} -> 3
      [] op \in {"Multiply", "Divide", "FloorDivide"} -> 4
      [] op = "Power" -> 5

operator_precedence(op) ==
    CASE op = "Or" -> 0
      [] op = "And" -> 1
      [] op \in {"In", "Like", "NotLike", "Eq", "Neq", "Lt", "Lte", "Gt", "Gte"} -> 2
      [] op \in {"Plus", "Minus"} -> 3
      [] op \in {"Multiply", "Divide", "FloorDivide"} -> 4
      [] op = "Power" -> 5

\* a < b, a <= b, a > b, a >= b over PartialOrd: false when partial_cmp is None.
ordering_satisfies(op, cmp) ==
    CASE op = "Lt" -> cmp = "Less"
      [] op = "Lte" -> cmp \in {"Less", "Equal"}
      [] op = "Gt" -> cmp = "Greater"
      [] op = "Gte" -> cmp \in {"Greater", "Equal"}

\* execute_operation, for the operators whose operand semantics are modelled.
execute_operation(op, left, right) ==
    CASE op = "And" ->
            IF left.t = "Bool" /\ right.t = "Bool"
            THEN Ok(BoolV(left.v /\ right.v)) ELSE Err("Type")
      [] op = "Or" ->
            IF left.t = "Bool" /\ right.t = "Bool"
            THEN Ok(BoolV(left.v \/ right.v)) ELSE Err("Type")
      [] op = "In" -> Ok(BoolV(FieldValueContains(right, left)))
      [] op \in {"Lt", "Lte", "Gt", "Gte"} ->
            Ok(BoolV(ordering_satisfies(op, PartialCmp(left, right))))
      [] op = "Eq" -> Ok(BoolV(FieldValueEq(left, right)))
      [] op = "Neq" -> Ok(BoolV(~FieldValueEq(left, right)))
      [] op = "Plus" -> FieldValueAdd(left, right)
      [] op = "Minus" -> FieldValueSubtract(left, right)
      [] op = "Multiply" -> FieldValueMultiply(left, right)
      [] op = "Divide" -> FieldValueDivide(left, right)
      [] op = "Power" -> FieldValuePower(left, right)
      [] op = "FloorDivide" -> FieldValueFloorDivide(left, right)

StackFail(e) == [ok |-> FALSE, stack |-> <<>>, queue |-> <<>>, err |-> e]
StackOk(stack, queue) == [ok |-> TRUE, stack |-> stack, queue |-> queue, err |-> "None"]

\* evaluate_stack_operator's tail: push the operation's result, or fail.
push_result(stack, queue, res) ==
    IF res.ok
    THEN StackOk(SubSeq(stack, 1, Len(stack) - 1),
                 Append(SubSeq(queue, 1, Len(queue) - 2), res.val))
    ELSE StackFail(res.err)

\* evaluate_stack_operator: pop the stack's top, which must be an operator,
\* pop right then left from the queue, push the operation's result.
evaluate_stack_operator(stack, queue) ==
    IF Len(stack) = 0 THEN StackFail("NoOperator")
    ELSE IF stack[Len(stack)].k # "Operator" THEN StackFail("NoOperator")
    ELSE IF Len(queue) < 2 THEN StackFail("NoOperand")
    ELSE push_result(stack, queue,
                     execute_operation(stack[Len(stack)].op,
                                       queue[Len(queue) - 1], queue[Len(queue)]))

\* The Operator arm's loop: while the stack's top is an operator of equal or
\* higher precedence, evaluate it.
RECURSIVE PopHigher(_, _, _)
ThenPopHigher(r, op) == IF r.ok THEN PopHigher(r.stack, r.queue, op) ELSE r

PopHigher(stack, queue, op) ==
    IF /\ Len(stack) > 0
       /\ stack[Len(stack)].k = "Operator"
       /\ operator_precedence(stack[Len(stack)].op) >= operator_precedence(op)
    THEN ThenPopHigher(evaluate_stack_operator(stack, queue), op)
    ELSE StackOk(stack, queue)

\* The ClosedBracket arm's loop: evaluate until the top is an OpenedBracket.
RECURSIVE PopToBracket(_, _)
ThenPopToBracket(r) == IF r.ok THEN PopToBracket(r.stack, r.queue) ELSE r

PopToBracket(stack, queue) ==
    IF Len(stack) > 0 /\ stack[Len(stack)].k = "OpenedBracket"
    THEN StackOk(stack, queue)
    ELSE ThenPopToBracket(evaluate_stack_operator(stack, queue))

\* The final loop: evaluate until the stack is empty.
RECURSIVE PopAll(_, _)
ThenPopAll(r) == IF r.ok THEN PopAll(r.stack, r.queue) ELSE r

PopAll(stack, queue) ==
    IF Len(stack) = 0 THEN StackOk(stack, queue)
    ELSE ThenPopAll(evaluate_stack_operator(stack, queue))

RECURSIVE EvalFrom(_, _, _, _, _)
\* After the loop: exactly one value must be left on the queue.
EvalResult(r) ==
    IF ~r.ok THEN Err(r.err)
    ELSE IF Len(r.queue) # 1 THEN Err("QueueLen")
    ELSE Ok(r.queue[1])

\* The Operator arm after its loop: push the operator.
EvalPushOperator(expr, i, r, data) ==
    IF ~r.ok THEN Err(r.err)
    ELSE EvalFrom(expr, i + 1, Append(r.stack, expr[i]), r.queue, data)

\* The ClosedBracket arm after its loop: pop the OpenedBracket.
EvalPopBracket(expr, i, r, data) ==
    IF ~r.ok THEN Err(r.err)
    ELSE EvalFrom(expr, i + 1, SubSeq(r.stack, 1, Len(r.stack) - 1), r.queue, data)

\* The Function arm: push the call's value, or fail with its error.
EvalPushFunction(expr, i, stack, queue, res, data) ==
    IF ~res.ok THEN Err(res.err)
    ELSE EvalFrom(expr, i + 1, stack, Append(queue, res.val), data)

EvalFrom(expr, i, stack, queue, data) ==
    IF i > Len(expr) THEN EvalResult(PopAll(stack, queue))
    ELSE CASE expr[i].k = "OpenedBracket" ->
                EvalFrom(expr, i + 1, Append(stack, expr[i]), queue, data)
           [] expr[i].k = "FieldName" ->
                EvalFrom(expr, i + 1, stack,
                         Append(queue, get_field_value(expr[i].name, data)), data)
           [] expr[i].k = "FieldValue" ->
                EvalFrom(expr, i + 1, stack, Append(queue, expr[i].v), data)
           [] expr[i].k = "Operator" ->
                EvalPushOperator(expr, i, PopHigher(stack, queue, expr[i].op), data)
           [] expr[i].k = "Function" ->
                EvalPushFunction(expr, i, stack, queue, execute_function(expr[i].f, data), data)
           [] expr[i].k = "ClosedBracket" ->
                EvalPopBracket(expr, i, PopToBracket(stack, queue), data)

evaluate_expression(expr, data) == EvalFrom(expr, 1, <<>>, <<>>, data)

\* No executor stage has anything to work on.
NoRequest == [parse |-> [kind |-> "None"], select |-> [kind |-> "None"],
              from |-> [kind |-> "None"], include |-> [kind |-> "None"]]

\* The parser and the LIKE operator before anything was handed to them.
NotParsed == [ok |-> FALSE, i |-> 0 - 1, val |-> "NotRun"]

ParseIdle ==
    /\ queryText = <<>>
    /\ cursor = 0
    /\ parsed = NotParsed

LikeIdle ==
    /\ regexCache = <<>>
    /\ likeResult = <<>>

NotExtracted ==
    [done |-> FALSE, title |-> <<>>, code_blocks |-> <<>>, links |-> <<>>, tasks |-> <<>>]

MarkdownIdle ==
    /\ document = <<>>
    /\ fileInfo = NotExtracted

RaceIdle == invocations = <<>>

ExecIdle ==
    /\ fetched = <<>>
    /\ records = <<>>
    /\ orderBy = <<>>
    /\ selectFields = <<>>
    /\ outcome = "NotRun"
    /\ request = NoRequest

(***************************************************************************)
(* The Markdown ingester and its cache (markdown_fetcher.rs).              *)
(***************************************************************************)
Paths == {"d1/a.md", "d1/b.md", "d2/c.md"}
DirOf(path) == IF path = "d2/c.md" THEN "d2" ELSE "d1"
Dirs == {"d1", "d2"}

\* Modification times in half seconds: 9.5 s, 10 s, 10.5 s.
Mtimes == {19, 20, 21}
Contents == {1, 2}

NoFile == [exists |-> FALSE, mtime |-> 0, content |-> 0, readable |-> FALSE]
File(mtime, content, readable) ==
    [exists |-> TRUE, mtime |-> mtime, content |-> content, readable |-> readable]

\* DateTime::<Utc>::to_rfc3339, from the seconds field on: two digits of
\* seconds, the fraction when there is one, the offset.
to_rfc3339_unpadded(t) ==
    (IF t \div 2 >= 10 THEN <<Digit((t \div 2) \div 10)>> ELSE <<>>)
    \o <<Digit((t \div 2) % 10)>>
    \o (IF t % 2 = 1 THEN <<".", "5", "0", "0">> ELSE <<>>)
    \o <<"+", "0", "0", ":", "0", "0">>

to_rfc3339(t) ==
    <<Digit((t \div 2) \div 10), Digit((t \div 2) % 10)>>
    \o (IF t % 2 = 1 THEN <<".", "5", "0", "0">> ELSE <<>>)
    \o <<"+", "0", "0", ":", "0", "0">>

\* The empty HashMap, and HashMap operations on functions.
EmptyMap == [p \in {} |-> 0]
\* The new entries alone.
MapReplace(old, new) == new

\* The old entries with the new ones inserted or replacing them.
MapMerge(old, new) ==
    [p \in DOMAIN old \cup DOMAIN new |-> IF p \in DOMAIN new THEN new[p] ELSE old[p]]
MapRetain(map, keys) == [p \in DOMAIN map \cap keys |-> map[p]]

\* get_markdown_files: the Markdown files under dir.
get_markdown_files(dir, disk) == {p \in Paths : disk[p].exists /\ DirOf(p) = dir}

KeyA == <<"a">>
KeyB == <<"b">>
KeyN == <<"n">>
KeyFile == <<"f", "i", "l", "e">>
KeyPath == <<"p", "a", "t", "h">>
KeyModified == <<"m", "o", "d", "i", "f", "i", "e", "d">>
KeyName == <<"n", "a", "m", "e">>

(***************************************************************************)
(* The body of a Markdown file.  parse_markdown_content walks the events   *)
(* that pulldown_cmark's Parser yields for the body and collects the       *)
(* title, the krafna code blocks, the links and the tasks.                 *)
(***************************************************************************)
KeyOrd == <<"o", "r", "d">>
KeyText == <<"t", "e", "x", "t">>
KeyUrl == <<"u", "r", "l">>
KeyType == <<"t", "y", "p", "e">>
KeyExternal == <<"e", "x", "t", "e", "r", "n", "a", "l">>
KeyChecked == <<"c", "h", "e", "c", "k", "e", "d">>
KeyParent == <<"p", "a", "r", "e", "n", "t">>

\* str::trim and str::starts_with
RECURSIVE trim_start(_)
trim_start(s) == IF s # <<>> /\ is_whitespace(Head(s)) THEN trim_start(Tail(s)) ELSE s

RECURSIVE trim_end(_)
trim_end(s) ==
    IF s # <<>> /\ is_whitespace(s[Len(s)]) THEN trim_end(SubSeq(s, 1, Len(s) - 1)) ELSE s

trim(s) == trim_end(trim_start(s))

starts_with(s, prefix) == Len(prefix) <= Len(s) /\ SubSeq(s, 1, Len(prefix)) = prefix

\* usize::to_string
RECURSIVE usize_to_string(_)
usize_to_string(n) ==
    IF n < 10 THEN <<Digit(n)>> ELSE usize_to_string(n \div 10) \o <<Digit(n % 10)>>

\* [String]::join(".")
RECURSIVE join_dots(_)
join_dots(ords) ==
    IF ords = <<>> THEN <<>>
    ELSE IF Len(ords) = 1 THEN ords[1]
    ELSE ords[1] \o <<".">> \o join_dots(Tail(ords))

\* pulldown_cmark::Event, as far as parse_markdown_content tells events apart.
StartHeading(level) == [k |-> "StartHeading", level |-> level]
EndHeading == [k |-> "EndHeading"]
StartCodeBlock(fenced, lang) == [k |-> "StartCodeBlock", fenced |-> fenced, lang |-> lang]
EndCodeBlock == [k |-> "EndCodeBlock"]
StartLink(link_type, dest_url) ==
    [k |-> "StartLink", link_type |-> link_type, dest_url |-> dest_url]
EndLink == [k |-> "EndLink"]
StartList == [k |-> "StartList"]
EndList == [k |-> "EndList"]
StartItem == [k |-> "StartItem"]
EndItem == [k |-> "EndItem"]
TaskListMarker(checked) == [k |-> "TaskListMarker", checked |-> checked]
Text(text) == [k |-> "Text", text |-> text]
StartParagraph == [k |-> "StartParagraph"]
EndParagraph == [k |-> "EndParagraph"]

\* prepare_link
prepare_link(link_ord, current_link, current_link_text, current_link_type, file_data) ==
    PodHash([k \in {KeyFile, KeyOrd, KeyText, KeyUrl, KeyType, KeyExternal} |->
        CASE k = KeyFile -> PodHash(file_data)
          [] k = KeyOrd -> PodInteger(link_ord)
          [] k = KeyText -> PodString(trim(current_link_text))
          [] k = KeyUrl -> PodString(trim(current_link))
          [] k = KeyType -> PodString(current_link_type)
          [] OTHER -> PodBoolean(\/ starts_with(current_link, <<"h", "t", "t", "p", ":", "/", "/">>)
                                 \/ starts_with(current_link, <<"h", "t", "t", "p", "s", ":", "/", "/">>)
                                 \/ starts_with(current_link, <<"/", "/">>))])

\* prepare_task
prepare_task(current_task, task_checked, task_ord, file_data) ==
    PodHash([k \in {KeyFile, KeyText, KeyChecked, KeyOrd, KeyParent} |->
        CASE k = KeyFile -> PodHash(file_data)
          [] k = KeyText -> PodString(trim(current_task))
          [] k = KeyChecked -> PodBoolean(task_checked)
          [] k = KeyOrd -> PodString(join_dots([n \in DOMAIN task_ord |-> usize_to_string(task_ord[n])]))
          [] OTHER ->
                IF Len(task_ord) <= 1 THEN PodNull
                ELSE PodString(join_dots([n \in 1..(Len(task_ord) - 1) |->
                                             usize_to_string(task_ord[n])]))])

\* The locals of parse_markdown_content before the first event.
MarkdownLocals ==
    [title |-> <<>>, code_blocks |-> <<>>, links |-> <<>>, tasks |-> <<>>,
     in_title |-> FALSE, title_complete |-> FALSE, title_text |-> <<>>,
     in_code_block |-> FALSE, current_code |-> <<>>, current_code_lang |-> <<>>,
     in_link |-> FALSE, current_link |-> <<>>, current_link_text |-> <<>>,
     current_link_type |-> <<>>, link_ord |-> 0,
     in_task |-> FALSE, task_level |-> 0, task_ord |-> <<>>, current_task |-> <<>>,
     task_checked |-> FALSE]

\* The code of a krafna block: newlines to spaces, trimmed.
code_text(current_code) ==
    trim([n \in DOMAIN current_code |-> IF current_code[n] = "\n" THEN " " ELSE current_code[n]])

\* The tasks after the pending task, if there is one, was pushed.
tasks_pushed(st, file_data) ==
    IF st.in_task
    THEN Append(st.tasks, prepare_task(st.current_task, st.task_checked, st.task_ord, file_data))
    ELSE st.tasks

\* The Text arm.
on_text(st, text) ==
    [st EXCEPT
        !.title_text = IF st.in_title THEN @ \o text ELSE @,
        !.current_code = IF st.in_code_block THEN @ \o text ELSE @,
        !.current_link_text = IF st.in_link THEN @ \o text ELSE @,
        !.current_task =
            IF ~st.in_task THEN @
            ELSE IF st.in_link
                 THEN @ \o <<"[">> \o st.current_link_text \o text \o <<"]", "(">>
                        \o st.current_link \o <<")">>
            ELSE @ \o text]

\* One turn of the loop over the events.
on_event(st, event, file_data) ==
    CASE event.k = "StartHeading" ->
            IF ~st.title_complete /\ event.level = 1 THEN [st EXCEPT !.in_title = TRUE] ELSE st
      [] event.k = "EndHeading" ->
            IF st.title_complete THEN st
            ELSE [st EXCEPT !.title = IF st.in_title THEN st.title_text ELSE @,
                            !.title_complete = st.in_title,
                            !.in_title = FALSE,
                            !.title_text = <<>>]
      [] event.k = "StartCodeBlock" ->
            [st EXCEPT !.in_code_block = TRUE,
                       !.current_code_lang = IF event.fenced THEN event.lang ELSE @]
      [] event.k = "EndCodeBlock" ->
            [st EXCEPT !.in_code_block = FALSE,
                       !.code_blocks = IF st.current_code_lang = <<"k", "r", "a", "f", "n", "a">>
                                       THEN Append(@, code_text(st.current_code)) ELSE @,
                       !.current_code = <<>>,
                       !.current_code_lang = <<>>]
      [] event.k = "StartLink" ->
            IF event.link_type \in {"Inline", "WikiLink"}
            THEN [st EXCEPT !.in_link = TRUE,
                            !.current_link = @ \o event.dest_url,
                            !.current_link_type =
                                IF event.link_type = "Inline" THEN <<"i", "n", "l", "i", "n", "e">> ELSE <<"w", "i", "k", "i">>]
            ELSE st
      [] event.k = "EndLink" ->
            [st EXCEPT !.in_link = FALSE,
                       !.link_ord = @ + 1,
                       !.links = Append(@, prepare_link(st.link_ord + 1, st.current_link,
                                                        st.current_link_text,
                                                        st.current_link_type, file_data)),
                       !.current_link = <<>>,
                       !.current_link_text = <<>>,
                       !.current_link_type = <<>>]
      [] event.k = "StartList" ->
            [st EXCEPT !.tasks = tasks_pushed(st, file_data),
                       !.current_task = IF st.in_task THEN <<>> ELSE @,
                       !.task_level = @ + 1,
                       !.task_ord = Append(@, 0),
                       !.in_task = FALSE]
      [] event.k = "EndItem" ->
            [st EXCEPT !.tasks = tasks_pushed(st, file_data),
                       !.current_task = IF st.in_task THEN <<>> ELSE @,
                       !.in_task = FALSE]
      [] event.k = "TaskListMarker" ->
            [st EXCEPT !.task_checked = event.checked,
                       !.in_task = TRUE,
                       !.task_ord[st.task_level] = @ + 1]
      [] event.k = "EndList" ->
            [st EXCEPT !.task_level = @ - 1,
                       !.task_ord = SubSeq(@, 1, Len(@) - 1),
                       !.in_task = FALSE]
      [] event.k = "Text" -> on_text(st, event.text)
      [] OTHER -> st

RECURSIVE for_event(_, _, _, _)
for_event(events, n, st, file_data) ==
    IF n > Len(events) THEN st
    ELSE for_event(events, n + 1, on_event(st, events[n], file_data), file_data)

\* parse_markdown_content: the MarkdownFileInfo of a body, given as the
\* events the Parser yields for it (with ENABLE_TASKLISTS and
\* ENABLE_WIKILINKS).
MarkdownFileInfo(st) ==
    [modified |-> <<>>, title |-> st.title, frontmatter |-> PodNull,
     code_blocks |-> st.code_blocks, links |-> st.links, tasks |-> st.tasks]

parse_markdown_content(events, file_data) ==
    MarkdownFileInfo(for_event(events, 1, MarkdownLocals, file_data))

(***************************************************************************)
(* Markdown bodies.  A body is a sequence of blocks: headings, code        *)
(* blocks, paragraphs of inlines and lists of items; an item has a task    *)
(* marker or none, inlines, and the lists nested in it.  Events gives the  *)
(* events pulldown_cmark yields for a body.                                *)
(***************************************************************************)
MaxInlines == 3        \* most inlines of a paragraph
MaxItems == 2          \* most items of a list

TextOf(text) == [k |-> "Text", text |-> text]
LinkOf(link_type, dest_url, text) ==
    [k |-> "Link", link_type |-> link_type, dest_url |-> dest_url, text |-> text]
ListItem(marker, inlines, lists) == [marker |-> marker, inlines |-> inlines, lists |-> lists]
Paragraph(inlines) == [k |-> "Paragraph", inlines |-> inlines]
List(items) == [k |-> "List", items |-> items]
Heading(level, text) == [k |-> "Heading", level |-> level, text |-> text]
CodeBlock(fenced, lang, code) ==
    [k |-> "CodeBlock", fenced |-> fenced, lang |-> lang, code |-> code]

InlineEvents(inline) ==
    IF inline.k = "Text" THEN <<Text(inline.text)>>
    ELSE <<StartLink(inline.link_type, inline.dest_url), Text(inline.text), EndLink>>

RECURSIVE InlinesEvents(_)
InlinesEvents(inlines) ==
    IF inlines = <<>> THEN <<>>
    ELSE InlineEvents(Head(inlines)) \o InlinesEvents(Tail(inlines))

RECURSIVE ItemsEvents(_)
RECURSIVE ListsEvents(_)
ItemEvents(item) ==
    <<StartItem>>
    \o (IF item.marker = "None" THEN <<>> ELSE <<TaskListMarker(item.marker = "Done")>>)
    \o InlinesEvents(item.inlines)
    \o ListsEvents(item.lists)
    \o <<EndItem>>

ItemsEvents(items) ==
    IF items = <<>> THEN <<>> ELSE ItemEvents(Head(items)) \o ItemsEvents(Tail(items))

ListsEvents(lists) ==
    IF lists = <<>> THEN <<>>
    ELSE <<StartList>> \o ItemsEvents(Head(lists)) \o <<EndList>> \o ListsEvents(Tail(lists))

BlockEvents(block) ==
    CASE block.k = "Paragraph" ->
            <<StartParagraph>> \o InlinesEvents(block.inlines) \o <<EndParagraph>>
      [] block.k = "List" -> ListsEvents(<<block.items>>)
      [] block.k = "Heading" -> <<StartHeading(block.level), Text(block.text), EndHeading>>
      [] block.k = "CodeBlock" ->
            <<StartCodeBlock(block.fenced, block.lang), Text(block.code), EndCodeBlock>>

RECURSIVE Events(_)
Events(body) == IF body = <<>> THEN <<>> ELSE BlockEvents(Head(body)) \o Events(Tail(body))

\* [x](b), [[b]], [[b|y]], <https://e> and [x][r] with r defined as c.
InlineLink == LinkOf("Inline", <<"b">>, <<"x">>)
WikiLink == LinkOf("WikiLink", <<"b">>, <<"b">>)
AliasedWikiLink == LinkOf("WikiLinkPothole", <<"b">>, <<"y">>)
Autolink == LinkOf("Autolink", <<"h", "t", "t", "p", "s", ":", "/", "/", "e">>, <<"h", "t", "t", "p", "s", ":", "/", "/", "e">>)
ReferenceLink == LinkOf("Reference", <<"c">>, <<"x">>)

\* Matter::parse and gray_matter_pod_to_pod: the data of a file's front
\* matter, if it has one.  The contents are
\*   1: "---\na: 1\n---"       2: "---\na: x\n---"     3: no front matter
\*   4: "---\nfile: mine\n---" 5: "---\n- x\n---" (a YAML sequence)
matter_parse(content) ==
    CASE content = 1 -> [some |-> TRUE, pod |-> PodHash([k \in {KeyA} |-> PodInteger(1)])]
      [] content = 2 -> [some |-> TRUE, pod |-> PodHash([k \in {KeyA} |-> PodString(<<"x">>)])]
      [] content \in {3, 6, 7, 8} -> [some |-> FALSE, pod |-> PodNull]
      [] content = 4 ->
            [some |-> TRUE,
             pod |-> PodHash([k \in {KeyFile} |-> PodString(<<"m", "i", "n", "e">>)])]
      [] OTHER -> [some |-> TRUE, pod |-> PodArray(<<PodString(<<"x">>)>>)]

\* Path::file_name
file_name(path) ==
    CASE path = "d1/a.md" -> "a.md"
      [] path = "d1/b.md" -> "b.md"
      [] OTHER -> "c.md"

\* get_file_info: the `file` hash.
get_file_info(path, disk) ==
    [k \in {KeyName, KeyPath, KeyModified} |->
        IF k = KeyName THEN PodString(file_name(path))
        ELSE IF k = KeyPath THEN PodString(path)
        ELSE PodString(to_rfc3339(disk[path].mtime))]

\* HashMap::insert
frontmatter_insert(frontmatter, key, value) ==
    [k \in DOMAIN frontmatter \cup {key} |-> IF k = key THEN value ELSE frontmatter[k]]

\* Pod::insert: inserts into a hash; any other pod is left as it is (the
\* Err("Not a hash") is dropped by the caller).
Pod_insert(pod, key, value) ==
    IF pod.t = "Hash" THEN PodHash(frontmatter_insert(pod.v, key, value)) ELSE pod

\* result.data.map(gray_matter_pod_to_pod).unwrap_or_else(Pod::new_hash)
unwrap_or_new_hash(data) == IF data.some THEN data.pod ELSE PodHash(EmptyMap)

\* The body of a file, after its front matter.  The contents 1 to 5 have no
\* body; the others have no front matter and the bodies
\*   6: "[[b]]"     7: "# T" and "[x](c#s)"     8: "# b" and "[y](https://e)"
body_of(content) ==
    CASE content = 6 -> <<Paragraph(<<WikiLink>>)>>
      [] content = 7 ->
            <<Heading(1, <<"T">>), Paragraph(<<LinkOf("Inline", <<"c", "#", "s">>, <<"x">>)>>)>>
      [] content = 8 ->
            <<Heading(1, <<"b">>), Paragraph(<<LinkOf("Inline", <<"h", "t", "t", "p", "s", ":", "/", "/", "e">>, <<"y">>)>>)>>
      [] OTHER -> <<>>

\* path.display().to_string()
path_display(path) ==
    CASE path = "d1/a.md" -> <<"d", "1", "/", "a", ".", "m", "d">>
      [] path = "d1/b.md" -> <<"d", "1", "/", "b", ".", "m", "d">>
      [] OTHER -> <<"d", "2", "/", "c", ".", "m", "d">>

\* str::ends_with, str::split(c).next() and str::replace
ends_with(s, suffix) ==
    Len(suffix) <= Len(s) /\ SubSeq(s, Len(s) - Len(suffix) + 1, Len(s)) = suffix

RECURSIVE split_next(_, _)
split_next(s, c) ==
    IF s = <<>> \/ Head(s) = c THEN <<>> ELSE <<Head(s)>> \o split_next(Tail(s), c)

RECURSIVE replace(_, _, _)
replace(s, from, to) ==
    IF s = <<>> THEN <<>>
    ELSE IF starts_with(s, from) THEN to \o replace(SubSeq(s, Len(from) + 1, Len(s)), from, to)
    ELSE <<Head(s)>> \o replace(Tail(s), from, to)

eq_ignore_ascii_case(s, u) == str_to_uppercase(s) = str_to_uppercase(u)

\* The link without its anchor and its query parameters.
cleaned_link(link) == replace(trim(split_next(split_next(link, "#"), "?")), <<"%", "2", "0">>, <<" ">>)

NoPath == [some |-> FALSE, path |-> "none"]
SomePath(path) == [some |-> TRUE, path |-> path]

\* min_by_key(|path| path.len()) over the matches.  Modelled for matches
\* with one shortest path: among several the first in the order of the
\* HashMap's iteration is taken.
min_by_len(matches) ==
    SomePath(CHOOSE p \in matches :
                 \A q \in matches : Len(path_display(p)) <= Len(path_display(q)))

\* find_matching_path: by file name, then by a part of the path, then by
\* title, by title with dashes as spaces, by title without dots.
find_matching_path(link, file_paths, titles) ==
    LET cleaned == cleaned_link(link)
        dashless == trim(replace(cleaned, <<"-">>, <<" ">>))
        exact_matches ==
            {p \in file_paths :
                \/ ends_with(path_display(p), cleaned)
                \/ ends_with(path_display(p), cleaned \o <<".", "m", "d">>)}
        partial_matches == {p \in file_paths : StrContains(path_display(p), cleaned)}
        title_matches ==
            {p \in file_paths : eq_ignore_ascii_case(titles[p], trim(cleaned))}
        dash_matches == {p \in file_paths : eq_ignore_ascii_case(titles[p], dashless)}
        dot_matches ==
            {p \in file_paths : eq_ignore_ascii_case(replace(titles[p], <<".">>, <<>>), dashless)}
    IN  IF cleaned = <<>> THEN NoPath
        ELSE IF exact_matches # {} THEN min_by_len(exact_matches)
        ELSE IF partial_matches # {} THEN min_by_len(partial_matches)
        ELSE IF title_matches # {} THEN min_by_len(title_matches)
        ELSE IF dash_matches # {} THEN min_by_len(dash_matches)
        ELSE IF dot_matches # {} THEN min_by_len(dot_matches)
        ELSE NoPath

\* The link with its path, when it is not external and a file matches.
with_link_path(link, link_path) ==
    IF link_path.some
    THEN Pod_insert(link, KeyPath, PodString(path_display(link_path.path)))
    ELSE link

link_resolved(link, file_paths, titles) ==
    IF link.v[KeyExternal].v THEN link
    ELSE with_link_path(link, find_matching_path(link.v[KeyUrl].v, file_paths, titles))

\* add_link_paths: every link of every result is resolved against the
\* paths and the titles of these results.
add_link_paths(results) ==
    [p \in DOMAIN results |->
        [results[p] EXCEPT !.links =
            [n \in DOMAIN results[p].links |->
                link_resolved(results[p].links[n], DOMAIN results,
                              [q \in DOMAIN results |-> results[q].title])]]]

\* parse_file: the file's frontmatter with its `file` entry, and its
\* modification time as text.  Fails when the file cannot be read.
parse_file(path, disk) ==
    [parse_markdown_content(Events(body_of(disk[path].content)), get_file_info(path, disk))
        EXCEPT !.modified = to_rfc3339(disk[path].mtime),
               !.frontmatter =
                    Pod_insert(unwrap_or_new_hash(matter_parse(disk[path].content)), KeyFile,
                               PodHash(get_file_info(path, disk)))]

\* parse_files: the files that parse, by path.display().
parse_files(files, disk) ==
    add_link_paths([p \in {q \in files : disk[q].readable} |-> parse_file(p, disk)])

\* save_cache: silently does nothing when the file cannot be created.
save_cache_never(cache, info, dirOk) == cache

save_cache(cache, info, dirOk) == IF dirOk THEN info ELSE cache

\* A cache file whose bytes are no serialized map.
Garbage == [p \in {"<garbage>"} |-> 0]
deserialize_ok(cache) == "<garbage>" \notin DOMAIN cache

\* load_cache as if the file could always be opened and read.
load_cache_unchecked(cache, dirOk) == cache

\* load_cache: the empty map when the file cannot be opened or does not
\* deserialize.
load_cache(cache, dirOk) == IF dirOk /\ deserialize_ok(cache) THEN cache ELSE EmptyMap

\* The filter's verdict on a file that has a cache entry.
modified_since(cached, current) == StrCmp(cached, current) = "Less"

\* The filter without its first test: files without a cache entry are left out.
files_to_parse_cached(files, cache, disk) ==
    {p \in files : p \in DOMAIN cache /\ modified_since(cache[p].modified, to_rfc3339(disk[p].mtime))}

files_to_parse(files, cache, disk) ==
    {p \in files :
        IF p \notin DOMAIN cache THEN TRUE
        ELSE modified_since(cache[p].modified, to_rfc3339(disk[p].mtime))}

\* get_markdown_files_info: what is parsed, what is returned, and the cache
\* file afterwards.
get_markdown_files_info(dir, disk, cache, dirOk) ==
    IF load_cache(cache, dirOk) = EmptyMap
    THEN [parsed |-> get_markdown_files(dir, disk),
          returned |-> parse_files(get_markdown_files(dir, disk), disk),
          cache |-> save_cache(cache, parse_files(get_markdown_files(dir, disk), disk), dirOk)]
    ELSE [parsed |-> files_to_parse(get_markdown_files(dir, disk), cache, disk),
          returned |->
              MapRetain(MapMerge(cache,
                                 parse_files(files_to_parse(get_markdown_files(dir, disk),
                                                            cache, disk), disk)),
                        get_markdown_files(dir, disk)),
          cache |->
              IF files_to_parse(get_markdown_files(dir, disk), cache, disk) = {}
              THEN cache
              ELSE save_cache(cache,
                              MapMerge(cache,
                                       parse_files(files_to_parse(get_markdown_files(dir, disk),
                                                                  cache, disk), disk)),
                              dirOk)]

NoRun == [dir |-> "none", mtimes |-> EmptyMap, cacheBefore |-> EmptyMap,
          parsed |-> {}, failed |-> {}, returned |-> EmptyMap]

CacheIdle ==
    /\ fs = [p \in Paths |-> NoFile]
    /\ cacheFile = EmptyMap
    /\ cacheDirOk = TRUE
    /\ prevRun = NoRun
    /\ lastRun = NoRun
    /\ changes = 0
    /\ elsewhere = [p \in Paths |-> NoFile]

InitCache ==
    /\ fs \in [Paths -> {NoFile, File(20, 1, TRUE), File(20, 1, FALSE)}]
    /\ cacheFile = EmptyMap
    /\ cacheDirOk \in BOOLEAN
    /\ prevRun = NoRun
    /\ lastRun = NoRun
    /\ changes = 0
    /\ expression = <<>>
    /\ evalResult = NotRun
    /\ ParseIdle
    /\ LikeIdle
    /\ MarkdownIdle
    /\ RaceIdle
    /\ elsewhere = [p \in Paths |-> NoFile]
    /\ ExecIdle

\* The record of one run of get_markdown_files_info over dir.
RunRecord(dir, r) ==
    [dir |-> dir,
     mtimes |-> [p \in get_markdown_files(dir, fs) |-> fs[p].mtime],
     cacheBefore |-> load_cache(cacheFile, cacheDirOk),
     parsed |-> r.parsed,
     failed |-> {p \in r.parsed : ~fs[p].readable},
     returned |-> r.returned]

\* fetch_frontmatter_data on a directory: one whole ingestion.
Ingest ==
    \E dir \in Dirs :
        \E r \in {get_markdown_files_info(dir, fs, cacheFile, cacheDirOk)} :
            /\ cacheFile' = r.cache
            /\ prevRun' = lastRun
            /\ lastRun' = RunRecord(dir, r)
            /\ UNCHANGED <<fs, cacheDirOk, changes, elsewhere, evalVars, execVars, parseVars, likeVars, markdownVars, raceVars>>

\* The environment writes a file: new content, new modification time, or
\* both (the time may also be set back).
WriteFile ==
    /\ changes < MaxChanges
    /\ \E p \in Paths, t \in Mtimes, c \in Contents :
            /\ fs[p].exists
            /\ <<t, c>> # <<fs[p].mtime, fs[p].content>>
            /\ fs' = [fs EXCEPT ![p] = File(t, c, fs[p].readable)]
    /\ changes' = changes + 1
    /\ UNCHANGED <<cacheFile, cacheDirOk, prevRun, lastRun, elsewhere, evalVars, execVars, parseVars, likeVars, markdownVars, raceVars>>

CreateFile ==
    /\ changes < MaxChanges
    /\ \E p \in Paths, t \in Mtimes :
            /\ ~fs[p].exists
            /\ fs' = [fs EXCEPT ![p] = File(t, 1, TRUE)]
    /\ changes' = changes + 1
    /\ UNCHANGED <<cacheFile, cacheDirOk, prevRun, lastRun, elsewhere, evalVars, execVars, parseVars, likeVars, markdownVars, raceVars>>

RemoveFile ==
    /\ changes < MaxChanges
    /\ \E p \in Paths :
            /\ fs[p].exists
            /\ fs' = [fs EXCEPT ![p] = NoFile]
    /\ changes' = changes + 1
    /\ UNCHANGED <<cacheFile, cacheDirOk, prevRun, lastRun, elsewhere, evalVars, execVars, parseVars, likeVars, markdownVars, raceVars>>

\* The environment changes a file's permissions: its modification time stays.
Chmod ==
    /\ changes < MaxChanges
    /\ \E p \in Paths :
            /\ fs[p].exists
            /\ fs' = [fs EXCEPT ![p].readable = ~fs[p].readable]
    /\ changes' = changes + 1
    /\ UNCHANGED <<cacheFile, cacheDirOk, prevRun, lastRun, elsewhere, evalVars, execVars, parseVars, likeVars, markdownVars, raceVars>>

NextCache ==
    \/ Ingest
    \/ WriteFile
    \/ CreateFile
    \/ RemoveFile
    \/ Chmod

SpecCache == InitCache /\ [][NextCache]_vars

\* The last two ingestions were of the same directory, the cache file is
\* usable, and every file has the modification time it had.
SameDirUnchanged ==
    /\ prevRun.dir # "none"
    /\ lastRun.dir = prevRun.dir
    /\ cacheDirOk
    /\ lastRun.mtimes = prevRun.mtimes

CachedBefore(modified, t) == \E u \in Mtimes : to_rfc3339(u) = modified /\ u < t

LogicOps == {"Or", "And", "Lt", "Minus", "Multiply", "Power"}
LogicOperands == {NumberV(1), NumberV(2), BoolV(TRUE)}

\* Division next to the other arithmetic levels; every value stays positive.
DivideOps == {"Eq", "Plus", "Multiply", "Divide"}
DivideOperands == {NumberV(2), NumberV(3)}

\* The remaining comparison operators and IN next to AND and +.
CompareOps == {"And", "Neq", "Lte", "Gt", "Gte", "In", "Plus"}
CompareOperands == {StringV(<<"a">>), StringV(<<"b">>)}

Families == {[ops |-> LogicOps, operands |-> LogicOperands],
             [ops |-> DivideOps, operands |-> DivideOperands],
             [ops |-> CompareOps, operands |-> CompareOperands]}

\* The tokens of e come from one family.
InOneFamily(e) ==
    \E f \in Families :
        \A i \in 1..Len(e) :
            /\ e[i].k = "Operator" => e[i].op \in f.ops
            /\ e[i].k = "FieldValue" => e[i].v \in f.operands

Depth(e) ==
    Cardinality({j \in 1..Len(e) : e[j].k = "OpenedBracket"})
    - Cardinality({j \in 1..Len(e) : e[j].k = "ClosedBracket"})

ExpectsOperand(e) ==
    IF Len(e) = 0 THEN TRUE ELSE e[Len(e)].k \in {"Operator", "OpenedBracket"}

Complete(e) == ~ExpectsOperand(e) /\ Depth(e) = 0

\* Tokens still needed to complete the prefix e.
Missing(e) == Depth(e) + (IF ExpectsOperand(e) THEN 1 ELSE 0)

Extends(e) == InOneFamily(e) /\ Len(e) + Missing(e) <= MaxExprLen

(***************************************************************************)
(* The reference evaluator: split at the rightmost operator of the lowest  *)
(* level outside every bracket, evaluate both sides, apply the operator.   *)
(***************************************************************************)
RefLevel(op) ==
    IF op = "Or" THEN 1
    ELSE IF op = "And" THEN 2
    ELSE IF op \in {"Plus", "Minus"} THEN 4
    ELSE IF op \in {"Multiply", "Divide", "FloorDivide"} THEN 5
    ELSE IF op = "Power" THEN 6
    ELSE 3

DepthBefore(e, i) ==
    Cardinality({j \in 1..(i - 1) : e[j].k = "OpenedBracket"})
    - Cardinality({j \in 1..(i - 1) : e[j].k = "ClosedBracket"})

TopOperators(e) == {i \in 1..Len(e) : e[i].k = "Operator" /\ DepthBefore(e, i) = 0}

RECURSIVE RefEval(_)
RefEval(e) ==
    IF Len(e) = 1 THEN Ok(e[1].v)
    ELSE IF TopOperators(e) = {} THEN RefEval(SubSeq(e, 2, Len(e) - 1))
    ELSE LET tops == TopOperators(e)
             low == CHOOSE l \in {RefLevel(e[i].op) : i \in tops} :
                        \A i \in tops : l <= RefLevel(e[i].op)
             at == CHOOSE i \in tops :
                        /\ RefLevel(e[i].op) = low
                        /\ \A j \in tops : RefLevel(e[j].op) = low => j <= i
             l == RefEval(SubSeq(e, 1, at - 1))
             r == RefEval(SubSeq(e, at + 1, Len(e)))
         IN  IF ~l.ok THEN l
             ELSE IF ~r.ok THEN r
             ELSE execute_operation(e[at].op, l.val, r.val)

(***************************************************************************)
(* SpecEval: evaluate_expression applied to one well-formed expression.    *)
(***************************************************************************)
InitEval ==
    /\ expression = <<>>
    /\ evalResult = NotRun
    /\ ParseIdle
    /\ LikeIdle
    /\ MarkdownIdle
    /\ RaceIdle
    /\ ExecIdle
    /\ CacheIdle

PushOperand ==
    /\ evalResult = NotRun
    /\ ExpectsOperand(expression)
    /\ \E f \in Families : \E v \in f.operands :
            /\ Extends(Append(expression, FieldValueEl(v)))
            /\ expression' = Append(expression, FieldValueEl(v))
    /\ UNCHANGED <<evalResult, execVars, cacheVars, parseVars, likeVars, markdownVars, raceVars>>

PushOperator ==
    /\ evalResult = NotRun
    /\ ~ExpectsOperand(expression)
    /\ \E f \in Families : \E op \in f.ops :
            /\ Extends(Append(expression, OperatorEl(op)))
            /\ expression' = Append(expression, OperatorEl(op))
    /\ UNCHANGED <<evalResult, execVars, cacheVars, parseVars, likeVars, markdownVars, raceVars>>

PushOpenedBracket ==
    /\ evalResult = NotRun
    /\ ExpectsOperand(expression)
    /\ Extends(Append(expression, OpenedBracket))
    /\ expression' = Append(expression, OpenedBracket)
    /\ UNCHANGED <<evalResult, execVars, cacheVars, parseVars, likeVars, markdownVars, raceVars>>

PushClosedBracket ==
    /\ evalResult = NotRun
    /\ ~ExpectsOperand(expression)
    /\ Depth(expression) > 0
    /\ expression' = Append(expression, ClosedBracket)
    /\ UNCHANGED <<evalResult, execVars, cacheVars, parseVars, likeVars, markdownVars, raceVars>>

Evaluate ==
    /\ evalResult = NotRun
    /\ Complete(expression)
    /\ evalResult' = evaluate_expression(expression, PodNull)
    /\ UNCHANGED <<expression, execVars, cacheVars, parseVars, likeVars, markdownVars, raceVars>>

NextEval ==
    \/ PushOperand
    \/ PushOperator
    \/ PushOpenedBracket
    \/ PushClosedBracket
    \/ Evaluate

SpecEval == InitEval /\ [][NextEval]_vars

\* C1: on every well-formed infix expression evaluate_expression returns what
\* the reference evaluator returns, with OR < AND < comparison/IN < +,- <
\* *,/ < ** all left-associative and brackets overriding.
C1_AgreesWithReference ==
    evalResult # NotRun => evalResult = RefEval(expression)

\* TRUE OR TRUE AND 2 < 1 has been evaluated to TRUE: < bound tighter than
\* AND, AND tighter than OR.
C1_Witness ==
    /\ expression = <<FieldValueEl(BoolV(TRUE)), OperatorEl("Or"),
                      FieldValueEl(BoolV(TRUE)), OperatorEl("And"),
                      FieldValueEl(NumberV(2)), OperatorEl("Lt"),
                      FieldValueEl(NumberV(1))>>
    /\ evalResult = Ok(BoolV(TRUE))

(***************************************************************************)
(* execute_where.                                                          *)
(***************************************************************************)
\* The retain closure: keep the record iff evaluation is Ok(Bool(true)).
where_retains_any_ok(expr, pod) == evaluate_expression(expr, pod).ok

is_bool_true(r) == IF r.ok /\ r.val.t = "Bool" THEN r.val.v ELSE FALSE

where_retains(expr, pod) == is_bool_true(evaluate_expression(expr, pod))

\* Vec::retain with the closure above.
RECURSIVE RetainWhere(_, _)
RetainWhere(expr, data) ==
    IF Len(data) = 0 THEN <<>>
    ELSE IF where_retains(expr, Head(data))
         THEN <<Head(data)>> \o RetainWhere(expr, Tail(data))
         ELSE RetainWhere(expr, Tail(data))

\* execute_where without the dry run's early return.
after_dry_run_ignored(dry, expr, data) == [outcome |-> "Ok", data |-> RetainWhere(expr, data)]

\* execute_where after the dry run on the first record.
after_dry_run(dry, expr, data) ==
    IF ~dry.ok THEN [outcome |-> dry.err, data |-> data]
    ELSE [outcome |-> "Ok", data |-> RetainWhere(expr, data)]

execute_where(expr, data) ==
    IF Len(expr) = 0 \/ Len(data) = 0 THEN [outcome |-> "Ok", data |-> data]
    ELSE after_dry_run(evaluate_expression(expr, data[1]), expr, data)

\* Records: hashes with an optional key a.
WhereRecords ==
    {PodHash([k \in {KeyA} |-> v]) :
        v \in {PodInteger(1), PodInteger(2), PodBoolean(TRUE), PodString(<<"x">>)}}
    \cup {PodHash([k \in {KeyB} |-> PodInteger(1)])}

WhereExpressions ==
    {<<>>,
     <<FieldNameEl(KeyA), OperatorEl("Eq"), FieldValueEl(NumberV(1))>>,
     <<FieldNameEl(KeyA), OperatorEl("Lt"), FieldValueEl(NumberV(2))>>,
     <<FieldNameEl(KeyA), OperatorEl("Plus"), FieldValueEl(NumberV(1)),
       OperatorEl("Eq"), FieldValueEl(NumberV(2))>>,
     <<FieldNameEl(KeyA)>>,
     <<FieldNameEl(KeyA), OperatorEl("Or"), FieldValueEl(BoolV(FALSE))>>,
     <<FieldNameEl(KeyA), OperatorEl("Eq")>>,
     <<FieldNameEl(KeyA), OperatorEl("Plus"), FieldValueEl(NumberV(1))>>}

InitWhere ==
    /\ expression \in WhereExpressions
    /\ evalResult = NotRun
    /\ ParseIdle
    /\ LikeIdle
    /\ MarkdownIdle
    /\ RaceIdle
    /\ \E m \in 0..MaxRecords : fetched \in [1..m -> WhereRecords]
    /\ records = fetched
    /\ orderBy = <<>>
    /\ selectFields = <<>>
    /\ outcome = "NotRun"
    /\ request = NoRequest
    /\ CacheIdle

Where ==
    /\ outcome = "NotRun"
    /\ \E r \in {execute_where(expression, records)} :
            /\ records' = r.data
            /\ outcome' = r.outcome
    /\ UNCHANGED <<expression, evalResult, fetched, orderBy, selectFields, request, cacheVars, parseVars, likeVars, markdownVars, raceVars>>

NextWhere == Where

SpecWhere == InitWhere /\ [][NextWhere]_vars

\* The indices of the fetched records on which the WHERE expression evaluates
\* to boolean true, and the k-th of them.
TrueAt == {i \in 1..Len(fetched) :
              evaluate_expression(expression, fetched[i]) = Ok(BoolV(TRUE))}
KthTrue(k) == CHOOSE i \in TrueAt : Cardinality({j \in TrueAt : j < i}) = k - 1

\* C2: after execute_where with a non-empty expression that evaluates on the
\* first record, the records left are exactly the input records on which the
\* expression is boolean true, in input order; with an empty expression every
\* record is left.
C2_WhereKeepsExactlyTrue ==
    outcome # "NotRun" =>
        /\ (expression = <<>>) => (outcome = "Ok" /\ records = fetched)
        /\ (/\ expression # <<>>
            /\ fetched # <<>> => evaluate_expression(expression, fetched[1]).ok)
           => /\ outcome = "Ok"
              /\ Len(records) = Cardinality(TrueAt)
              /\ \A k \in 1..Len(records) : records[k] = fetched[KthTrue(k)]

\* a + 1 == 2 over records a = 1, a = "x", a = 1: the middle record, on which
\* the expression is a type error, is dropped and both others are kept.
C2_Witness ==
    /\ outcome = "Ok"
    /\ expression = <<FieldNameEl(KeyA), OperatorEl("Plus"), FieldValueEl(NumberV(1)),
                      OperatorEl("Eq"), FieldValueEl(NumberV(2))>>
    /\ fetched = <<PodHash([k \in {KeyA} |-> PodInteger(1)]),
                   PodHash([k \in {KeyA} |-> PodString(<<"x">>)]),
                   PodHash([k \in {KeyA} |-> PodInteger(1)])>>
    /\ Len(records) = 2

(***************************************************************************)
(* execute_order_by.                                                       *)
(***************************************************************************)
OrderByFieldOption(name, direction) == [field_name |-> name, order_direction |-> direction]

\* The closure's comparison of two field values, before the direction.
field_comparison_null_last(fv_a, fv_b) ==
    IF fv_a.t = "Null" THEN "Greater"
    ELSE IF fv_b.t = "Null" THEN "Less"
    ELSE IF PartialCmp(fv_a, fv_b) = "None" THEN "Equal"
    ELSE PartialCmp(fv_a, fv_b)

field_comparison(fv_a, fv_b) ==
    IF fv_a.t = "Null" THEN "Less"
    ELSE IF fv_b.t = "Null" THEN "Greater"
    ELSE IF PartialCmp(fv_a, fv_b) = "None" THEN "Equal"
    ELSE PartialCmp(fv_a, fv_b)

\* The sort_by closure: the first field that compares non-Equal decides,
\* inverted when the field is DESC.
RECURSIVE compare(_, _, _)
decide(comparison, fields, a, b) ==
    IF comparison # "Equal"
    THEN IF Head(fields).order_direction = "ASC" THEN comparison
         ELSE IF comparison = "Less" THEN "Greater"
         ELSE "Less"
    ELSE compare(Tail(fields), a, b)

compare(fields, a, b) ==
    IF Len(fields) = 0 THEN "Equal"
    ELSE decide(field_comparison(get_field_value(Head(fields).field_name, a),
                                 get_field_value(Head(fields).field_name, b)),
                fields, a, b)

is_less(fields, a, b) == compare(fields, a, b) = "Less"

\* slice::sort_by on a short slice is an insertion sort.  With a closure that
\* is not a total order the resulting order is unspecified; the two insertion
\* sorts the standard library has used are both modelled.
\* insertion_sort_shift_left: insert v[i] into the sorted v[1..i-1], moving
\* it left while it is less than its left neighbour.
RECURSIVE insert_tail(_, _, _, _)
insert_tail(fields, sorted, j, tmp) ==
    IF j >= 1 /\ is_less(fields, tmp, sorted[j])
    THEN insert_tail(fields, sorted, j - 1, tmp)
    ELSE SubSeq(sorted, 1, j) \o <<tmp>> \o SubSeq(sorted, j + 1, Len(sorted))

RECURSIVE insertion_sort_shift_left(_, _, _)
insertion_sort_shift_left(fields, v, i) ==
    IF i > Len(v) THEN v
    ELSE insertion_sort_shift_left(
             fields,
             insert_tail(fields, SubSeq(v, 1, i - 1), i - 1, v[i])
                 \o SubSeq(v, i + 1, Len(v)),
             i + 1)

\* insert_head: insert v[i] into the sorted v[i+1..], moving it right while
\* its right neighbour is less than it.
RECURSIVE insert_head(_, _, _, _)
insert_head(fields, sorted, j, tmp) ==
    IF j <= Len(sorted) /\ is_less(fields, sorted[j], tmp)
    THEN insert_head(fields, sorted, j + 1, tmp)
    ELSE SubSeq(sorted, 1, j - 1) \o <<tmp>> \o SubSeq(sorted, j, Len(sorted))

RECURSIVE insertion_sort_insert_head(_, _, _)
insertion_sort_insert_head(fields, v, i) ==
    IF i < 1 THEN v
    ELSE insertion_sort_insert_head(
             fields,
             SubSeq(v, 1, i - 1)
                 \o insert_head(fields, SubSeq(v, i + 1, Len(v)), 1, v[i]),
             i - 1)

SortImpls == {"shift_left", "insert_head"}

sort_by(impl, fields, v) ==
    IF impl = "shift_left" THEN insertion_sort_shift_left(fields, v, 2)
    ELSE insertion_sort_insert_head(fields, v, Len(v) - 1)

\* Records with optional keys a and b.
OrderValuesA == {PodNull, PodInteger(1), PodInteger(2), PodString(<<"x">>)}
OrderValuesB == {PodNull, PodInteger(1), PodInteger(2)}

\* A hash with key a unless va is Null and key b unless vb is Null.
RecordAB(va, vb) ==
    PodHash([k \in (IF va.t = "Null" THEN {} ELSE {KeyA})
                   \cup (IF vb.t = "Null" THEN {} ELSE {KeyB})
             |-> IF k = KeyA THEN va ELSE vb])

OrderRecords == {RecordAB(va, vb) : va \in OrderValuesA, vb \in OrderValuesB}

Directions == {"ASC", "DESC"}

OrderBys ==
    {<<OrderByFieldOption(KeyA, d)>> : d \in Directions}
    \cup {<<OrderByFieldOption(KeyA, d), OrderByFieldOption(KeyB, e)>> :
             d \in Directions, e \in Directions}

InitOrder ==
    /\ \E m \in 0..MaxRecords : fetched \in [1..m -> OrderRecords]
    /\ orderBy \in OrderBys
    /\ records = fetched
    /\ outcome = "NotRun"
    /\ selectFields = <<>>
    /\ expression = <<>>
    /\ evalResult = NotRun
    /\ ParseIdle
    /\ LikeIdle
    /\ MarkdownIdle
    /\ RaceIdle
    /\ request = NoRequest
    /\ CacheIdle

OrderBy ==
    /\ outcome = "NotRun"
    /\ \E impl \in SortImpls : records' = sort_by(impl, orderBy, records)
    /\ outcome' = "Ok"
    /\ UNCHANGED <<fetched, orderBy, selectFields, request, evalVars, cacheVars, parseVars, likeVars, markdownVars, raceVars>>

NextOrder == OrderBy

SpecOrder == InitOrder /\ [][NextOrder]_vars

\* Two records have the same value on every ORDER BY field.
EqualOnOrderBy(x, y) ==
    \A i \in 1..Len(orderBy) :
        get_field_value(orderBy[i].field_name, x)
            = get_field_value(orderBy[i].field_name, y)

\* The records of seq that equal x on every ORDER BY field, in seq's order.
RECURSIVE ClassOf(_, _)
ClassOf(seq, x) ==
    IF Len(seq) = 0 THEN <<>>
    ELSE IF EqualOnOrderBy(Head(seq), x) THEN <<Head(seq)>> \o ClassOf(Tail(seq), x)
    ELSE ClassOf(Tail(seq), x)

\* C5: after execute_order_by, records equal on every ORDER BY field, Null
\* included, keep the relative order they had in the input.
C5_Stable ==
    outcome = "Ok" =>
        \A i \in 1..Len(fetched) : ClassOf(records, fetched[i]) = ClassOf(fetched, fetched[i])

\* The comparison C6 describes, computed field by field: the first field on
\* which the two records compare non-Equal decides, reversed under DESC.
RECURSIVE Lexicographic(_, _, _)
Lexicographic(i, x, y) ==
    IF i > Len(orderBy) THEN "Equal"
    ELSE IF field_comparison(get_field_value(orderBy[i].field_name, x),
                             get_field_value(orderBy[i].field_name, y)) = "Equal"
         THEN Lexicographic(i + 1, x, y)
    ELSE IF orderBy[i].order_direction = "ASC"
         THEN field_comparison(get_field_value(orderBy[i].field_name, x),
                               get_field_value(orderBy[i].field_name, y))
    ELSE IF field_comparison(get_field_value(orderBy[i].field_name, x),
                             get_field_value(orderBy[i].field_name, y)) = "Less"
         THEN "Greater"
    ELSE "Less"

\* C6: after execute_order_by no record stands before one it compares Greater
\* than in the lexicographic order of the ORDER BY list.
C6_LexicographicOrder ==
    outcome = "Ok" =>
        \A i \in 1..Len(records) : \A j \in (i + 1)..Len(records) :
            Lexicographic(1, records[i], records[j]) # "Greater"

IsNullOn(field, r) == get_field_value(field, r).t = "Null"

\* C7: after execute_order_by on a single field, the records that are Null on
\* it stand before all others under ASC and after all others under DESC.
C7_NullsFirstAscLastDesc ==
    (outcome = "Ok" /\ Len(orderBy) = 1) =>
        \A i \in 1..Len(records) : \A j \in 1..Len(records) :
            (/\ IsNullOn(orderBy[1].field_name, records[i])
             /\ ~IsNullOn(orderBy[1].field_name, records[j]))
            => IF orderBy[1].order_direction = "ASC" THEN i < j ELSE i > j

\* a = 2, a missing, a = 1 has been ordered by a DESC into 2, 1, missing.
C7_Witness ==
    /\ outcome = "Ok"
    /\ orderBy = <<OrderByFieldOption(KeyA, "DESC")>>
    /\ fetched = <<RecordAB(PodInteger(1), PodNull), RecordAB(PodNull, PodNull),
                   RecordAB(PodInteger(2), PodNull)>>
    /\ records = <<RecordAB(PodInteger(2), PodNull), RecordAB(PodInteger(1), PodNull),
                   RecordAB(PodNull, PodNull)>>

(***************************************************************************)
(* execute_select.                                                         *)
(***************************************************************************)
\* s.split_once('.').map_or(s, |(before, _)| before)
whole_path(s) == s

split_once_before(s) ==
    IF FirstIndexOf(s, ".") = 0 THEN s ELSE SubSeq(s, 1, FirstIndexOf(s, ".") - 1)

check_fields(fields) == {split_once_before(fields[i]) : i \in 1..Len(fields)}

\* hashmap.retain(|k, _| check_fields.contains(k)), on hashes only.
select_pod(fields, pod) ==
    IF pod.t = "Hash"
    THEN PodHash([k \in DOMAIN pod.v \cap check_fields(fields) |-> pod.v[k]])
    ELSE pod

execute_select(fields, data) == [i \in 1..Len(data) |-> select_pod(fields, data[i])]

KeyF == <<"f">>
KeyZ == <<"z">>
FileHash == PodHash([k \in {KeyN} |-> PodString(<<"x">>)])

\* Hashes over the keys a, b and f (a nested hash), and one record that is
\* no hash.
SelectRecords ==
    {PodHash([k \in keys |-> IF k = KeyA THEN PodInteger(1)
                             ELSE IF k = KeyB THEN PodInteger(2)
                             ELSE FileHash]) : keys \in SUBSET {KeyA, KeyB, KeyF}}
    \cup {PodString(<<"x">>)}

SelectPaths == {KeyA, <<"f", ".", "n">>, <<"f", ".", "x">>, KeyZ}

InitSelect ==
    /\ \E m \in 0..MaxRecords : fetched \in [1..m -> SelectRecords]
    /\ \E m \in 0..2 : selectFields \in [1..m -> SelectPaths]
    /\ records = fetched
    /\ outcome = "NotRun"
    /\ orderBy = <<>>
    /\ expression = <<>>
    /\ evalResult = NotRun
    /\ ParseIdle
    /\ LikeIdle
    /\ MarkdownIdle
    /\ RaceIdle
    /\ request = NoRequest
    /\ CacheIdle

Select ==
    /\ outcome = "NotRun"
    /\ records' = execute_select(selectFields, records)
    /\ outcome' = "Ok"
    /\ UNCHANGED <<fetched, orderBy, selectFields, request, evalVars, cacheVars, parseVars, likeVars, markdownVars, raceVars>>

NextSelect == Select

SpecSelect == InitSelect /\ [][NextSelect]_vars

\* The top-level keys named by the selected paths: each path's first segment.
SelectedHeads == {Split(selectFields[i], ".")[1] : i \in 1..Len(selectFields)}

\* C8: execute_select keeps the number and order of the records; each hash
\* keeps exactly its top-level keys that head a selected path, with their
\* values, and loses the others; a path that matches nothing changes nothing.
C8_SelectKeepsHeads ==
    outcome = "Ok" =>
        /\ Len(records) = Len(fetched)
        /\ \A i \in 1..Len(fetched) :
            IF fetched[i].t = "Hash"
            THEN /\ records[i].t = "Hash"
                 /\ DOMAIN records[i].v = DOMAIN fetched[i].v \cap SelectedHeads
                 /\ \A k \in DOMAIN records[i].v : records[i].v[k] = fetched[i].v[k]
            ELSE records[i] = fetched[i]

\* SELECT f.n, z on {a, b, f: {n}} has left {f: {n}}: the whole sub-hash is
\* kept for f.n and the unmatched z is ignored.
C8_Witness ==
    /\ outcome = "Ok"
    /\ selectFields = <<<<"f", ".", "n">>, KeyZ>>
    /\ Len(fetched) = 1
    /\ fetched[1].t = "Hash"
    /\ DOMAIN fetched[1].v = {KeyA, KeyB, KeyF}
    /\ records = <<PodHash([k \in {KeyF} |-> FileHash])>>

\* ---------------------------------------------------------------------
\* execute_query: parse, apply the overrides, fetch, filter, sort, project.
\* ---------------------------------------------------------------------

Function(name, args) == [name |-> name, args |-> args]
\* FunctionArg::FieldName; a FunctionArg::FieldValue is the value itself.
FieldNameArg(name) == [t |-> "FieldName", v |-> name]
NoFunction == [some |-> FALSE, function |-> Function(<<>>, <<>>)]
SomeFunction(f) == [some |-> TRUE, function |-> f]

Query(select, from, where, order) ==
    [select_fields |-> select, from_function |-> from,
     where_expression |-> where, order_by_fields |-> order]

\* char::to_uppercase on the letters function names are written with.
UpperChar(c) ==
    CASE c = "f" -> "F" [] c = "r" -> "R" [] c = "o" -> "O" [] c = "n" -> "N"
      [] c = "t" -> "T" [] c = "m" -> "M" [] c = "a" -> "A" [] c = "e" -> "E"
      [] c = "d" -> "D" [] OTHER -> c

to_uppercase(name) == [i \in 1..Len(name) |-> UpperChar(name[i])]

FRONTMATTER_DATA ==
    <<"F", "R", "O", "N", "T", "M", "A", "T", "T", "E", "R", "_", "D", "A", "T", "A">>

\* The validation without its check of the number of arguments.
validate_first_argument(args) ==
    IF Len(args) = 0 THEN Err("ArgumentError")
    ELSE IF args[1].t = "String" THEN Ok(args[1].v)
    ELSE Err("ArgumentError")

\* validate_and_fetch_markdown_path_argument: exactly one string argument.
validate_and_fetch_markdown_path_argument(args) ==
    IF Len(args) # 1 THEN Err("ArgumentError")
    ELSE IF args[1].t = "String" THEN Ok(args[1].v)
    ELSE Err("ArgumentError")

\* The orders in which HashMap::into_values may yield the values of info.
IntoValues(info) ==
    {[i \in 1..Cardinality(DOMAIN info) |-> info[o[i]].frontmatter] :
        o \in {f \in [1..Cardinality(DOMAIN info) -> DOMAIN info] :
                  \A i, j \in 1..Cardinality(DOMAIN info) : f[i] = f[j] => i = j}}

\* What one fetch yields: its outcome and the ingestion it ran (if any).
Fetched(out, dir, info) == [outcome |-> out, dir |-> dir, info |-> info]

NoInfo == [parsed |-> {}, returned |-> EmptyMap, cache |-> EmptyMap]

\* fetch_frontmatter_data: validate the argument, then ingest the directory.
after_validate(dir, disk, cache, dirOk) ==
    IF ~dir.ok THEN Fetched(dir.err, "none", NoInfo)
    ELSE Fetched("Ok", dir.val, get_markdown_files_info(dir.val, disk, cache, dirOk))

fetch_frontmatter_data(args, disk, cache, dirOk) ==
    after_validate(validate_and_fetch_markdown_path_argument(args), disk, cache, dirOk)

\* fetch_data: dispatch on the function's upper-cased name.
fetch_data(function, disk, cache, dirOk) ==
    IF to_uppercase(function.name) = FRONTMATTER_DATA
    THEN fetch_frontmatter_data(function.args, disk, cache, dirOk)
    ELSE Fetched("UnknownFunction", "none", NoInfo)

\* query.select_fields after the SELECT override.
select_override(fields, select) ==
    IF select.kind = "Ok" THEN select.fields ELSE fields

\* retain(|s| !include.contains(s)) then splice(0..0, include).
include_override(fields, include) ==
    IF include.kind = "Ok"
    THEN include.fields
         \o SelectSeq(fields, LAMBDA s : \A i \in 1..Len(include.fields) : include.fields[i] # s)
    ELSE fields

\* query.from_function after the FROM override.
from_override(from_function, from) ==
    IF from.kind = "Ok" THEN SomeFunction(from.function) ELSE from_function

\* The first failure before the fetch, "Ok" when there is none.  Unwrapping
\* an absent from_function panics.
before_fetch(req) ==
    IF req.parse.kind = "Err" THEN "ParseError"
    ELSE IF req.select.kind = "Err" THEN "ParseError"
    ELSE IF req.include.kind = "Err" THEN "ParseError"
    ELSE IF req.from.kind = "Err" THEN "ParseError"
    ELSE IF ~from_override(req.parse.query.from_function, req.from).some THEN "Panic"
    ELSE "Ok"

\* WHERE, ORDER BY and SELECT over the fetched records.
after_where(w, query, fields, impl) ==
    IF w.outcome # "Ok" THEN [outcome |-> w.outcome, data |-> <<>>]
    ELSE [outcome |-> "Ok",
          data |-> execute_select(fields, sort_by(impl, query.order_by_fields, w.data))]

after_fetch(query, fields, data, impl) ==
    after_where(execute_where(query.where_expression, data), query, fields, impl)

\* select_fields as execute_query hands them to execute_select.
query_select_fields(req) ==
    include_override(select_override(req.parse.query.select_fields, req.select), req.include)

\* Requests: the query as parsed (or its parse error) and the three
\* overrides, each absent, unparsable or parsed.
NoOverride == [kind |-> "None"]
ErrOverride == [kind |-> "Err"]

FrontmatterData(name, args) == SomeFunction(Function(name, args))

QueryFroms ==
    {NoFunction,
     FrontmatterData(<<"f", "r", "o", "n", "t", "m", "a", "t", "t", "e", "r", "_",
                       "d", "a", "t", "a">>, <<StringV("d1")>>),
     FrontmatterData(FRONTMATTER_DATA, <<StringV("d2")>>),
     FrontmatterData(FRONTMATTER_DATA, <<>>),
     FrontmatterData(FRONTMATTER_DATA, <<NumberV(1)>>),
     FrontmatterData(FRONTMATTER_DATA, <<BoolV(TRUE)>>),
     FrontmatterData(<<"F", "r", "o", "n", "t", "m", "a", "t", "t", "e", "r", "_",
                       "D", "a", "t", "a">>, <<FieldNameArg("d1")>>),
     FrontmatterData(FRONTMATTER_DATA, <<StringV("d1"), StringV("d2")>>),
     FrontmatterData(<<"D", "A", "T", "A">>, <<StringV("d1")>>)}

QueryWheres ==
    {<<>>,
     <<FieldNameEl(KeyA), OperatorEl("Plus"), FieldValueEl(NumberV(1)),
       OperatorEl("Eq"), FieldValueEl(NumberV(2))>>,
     <<FieldNameEl(KeyA), OperatorEl("Eq"), FieldValueEl(NumberV(1))>>}

Queries ==
    {Query(sel, from, where, order) :
        sel \in {<<KeyA>>, <<KeyFile>>}, from \in QueryFroms, where \in QueryWheres,
        order \in {<<>>, <<OrderByFieldOption(KeyA, "DESC")>>}}

Requests ==
    {[parse |-> parse, select |-> select, from |-> from, include |-> include] :
        parse \in {[kind |-> "Err"]} \cup {[kind |-> "Ok", query |-> q] : q \in Queries},
        select \in {NoOverride, ErrOverride, [kind |-> "Ok", fields |-> <<KeyFile>>]},
        from \in {NoOverride, ErrOverride,
                  [kind |-> "Ok", function |-> Function(FRONTMATTER_DATA, <<StringV("d1")>>)]},
        include \in {NoOverride, ErrOverride, [kind |-> "Ok", fields |-> <<KeyA>>]}}

InitQuery ==
    /\ request \in Requests
    /\ fs \in {[p \in Paths |-> IF p = "d1/a.md" THEN a ELSE IF p = "d1/b.md" THEN b ELSE c] :
                 a \in {NoFile, File(20, 1, TRUE), File(20, 2, TRUE)},
                 b \in {NoFile, File(20, 1, TRUE), File(20, 2, TRUE)},
                 c \in {NoFile, File(20, 1, TRUE)}}
    /\ cacheFile = EmptyMap
    /\ cacheDirOk = TRUE
    /\ prevRun = NoRun
    /\ lastRun = NoRun
    /\ changes = 0
    /\ fetched = <<>>
    /\ records = <<>>
    /\ orderBy = <<>>
    /\ selectFields = <<>>
    /\ outcome = "NotRun"
    /\ expression = <<>>
    /\ evalResult = NotRun
    /\ ParseIdle
    /\ LikeIdle
    /\ MarkdownIdle
    /\ RaceIdle
    /\ elsewhere = [p \in Paths |-> NoFile]

\* execute_query returning an error, or panicking, before any record is kept.
Fails(kind) ==
    /\ outcome' = kind
    /\ UNCHANGED <<fetched, records, orderBy, selectFields, request, evalVars, cacheVars, parseVars, likeVars, markdownVars, raceVars>>

\* The fetch succeeded: records come out of the map in some order, the
\* cache file and the run's record are as the ingestion left them.
Fetches(f) ==
    \E data \in IntoValues(f.info.returned), impl \in SortImpls :
        \E r \in {after_fetch(request.parse.query, query_select_fields(request), data, impl)} :
            /\ fetched' = data
            /\ records' = r.data
            /\ outcome' = r.outcome
            /\ selectFields' = IF r.outcome = "Ok" THEN query_select_fields(request)
                               ELSE selectFields
            /\ cacheFile' = f.info.cache
            /\ prevRun' = lastRun
            /\ lastRun' = RunRecord(f.dir, f.info)
            /\ UNCHANGED <<orderBy, request, fs, cacheDirOk, changes, elsewhere, evalVars, parseVars, likeVars, markdownVars, raceVars>>

ExecuteQuery ==
    /\ outcome = "NotRun"
    /\ IF before_fetch(request) # "Ok" THEN Fails(before_fetch(request))
       ELSE \E f \in {fetch_data(from_override(request.parse.query.from_function,
                                               request.from).function,
                                 fs, cacheFile, cacheDirOk)} :
                IF f.outcome # "Ok" THEN Fails(f.outcome) ELSE Fetches(f)

NextQuery == ExecuteQuery

SpecQuery == InitQuery /\ [][NextQuery]_vars

\* C9: a query that parses, has no FROM clause and is given no FROM
\* override (and whose other overrides parse) ends in an argument error.
C9_NoFromIsArgumentError ==
    (/\ outcome # "NotRun"
     /\ request.parse.kind = "Ok"
     /\ request.select.kind # "Err"
     /\ request.include.kind # "Err"
     /\ request.from.kind = "None"
     /\ ~request.parse.query.from_function.some)
        => outcome = "ArgumentError"

HasWhere == request.parse.kind = "Ok" /\ request.parse.query.where_expression # <<>>

DryRunDecides(dry) ==
    IF dry.ok THEN outcome = "Ok" ELSE outcome = dry.err /\ records = <<>>

FetchedFunction == from_override(request.parse.query.from_function, request.from).function

\* The ingester ran over directory dir and nothing else did.
IngesterReached(dir) == lastRun.dir = dir /\ prevRun = NoRun

\* C15: a call to FRONTMATTER_DATA, in any casing, reaches the ingester
\* exactly when it has one argument and that is a string literal; with any
\* other arguments the result is an argument error and nothing is ingested.
C15_OneStringArgument ==
    (/\ outcome # "NotRun"
     /\ before_fetch(request) = "Ok"
     /\ to_uppercase(FetchedFunction.name) = FRONTMATTER_DATA)
        => IF Len(FetchedFunction.args) = 1 /\ FetchedFunction.args[1].t = "String"
           THEN IngesterReached(FetchedFunction.args[1].v)
           ELSE outcome = "ArgumentError" /\ lastRun = NoRun /\ cacheFile = EmptyMap

C15_Witness ==
    /\ outcome = "ArgumentError"
    /\ request.from.kind = "None"
    /\ FetchedFunction.name # FRONTMATTER_DATA
    /\ to_uppercase(FetchedFunction.name) = FRONTMATTER_DATA

(***************************************************************************)
(* The parser (src/src/libs/parser.rs) over the cursor                     *)
(* (src/src/libs/peekable_deque.rs).  A text is a sequence of characters,  *)
(* the cursor an index into it counted from 0; every parse function takes  *)
(* the text and the index and yields its Result with the index it leaves.  *)
(***************************************************************************)
\* PeekableDeque: end, peek (of a cursor not at the end) and back.
end(t, i) == i >= Len(t)
peek(t, i) == t[i + 1]
back(i, n) == IF n > i THEN 0 ELSE i - n

\* Whether the cursor is on character c.
PeekIs(t, i, c) == IF end(t, i) THEN FALSE ELSE peek(t, i) = c

\* A parse function's Result and the index it leaves the cursor at.
ParseOk(i, val) == [ok |-> TRUE, i |-> i, val |-> val]
ParseErr(i, msg) == [ok |-> FALSE, i |-> i, val |-> msg]

\* parse_whitespaces: the index of the first character that is no whitespace.
RECURSIVE parse_whitespaces(_, _)
parse_whitespaces(t, i) ==
    IF end(t, i) THEN i
    ELSE IF is_whitespace(peek(t, i)) THEN parse_whitespaces(t, i + 1)
    ELSE i

parse_mandatory_whitespace(t, i) ==
    IF end(t, i) THEN ParseErr(i, "Expected whitespace")
    ELSE IF is_whitespace(peek(t, i)) THEN ParseOk(i + 1, <<>>)
    ELSE ParseErr(i, "Expected whitespace")

\* parse_keyword: the characters that match are consumed, also on failure.
RECURSIVE KeywordFrom(_, _, _, _, _)
KeywordFrom(t, i, keyword, k, case_sensitive) ==
    IF k > Len(keyword) THEN ParseOk(i, <<>>)
    ELSE IF end(t, i) THEN ParseErr(i, "Expected keyword")
    ELSE IF (IF case_sensitive THEN peek(t, i) = keyword[k]
             ELSE to_ascii_lowercase(peek(t, i)) = to_ascii_lowercase(keyword[k]))
         THEN KeywordFrom(t, i + 1, keyword, k + 1, case_sensitive)
    ELSE ParseErr(i, "Expected keyword")

parse_keyword(t, i, keyword, case_sensitive) == KeywordFrom(t, i, keyword, 1, case_sensitive)

\* The keyword and the whitespace that must follow it.
AfterKeyword(t, k) == IF k.ok THEN parse_mandatory_whitespace(t, k.i) ELSE k
KeywordAndWhitespace(t, i, keyword) == AfterKeyword(t, parse_keyword(t, i, keyword, FALSE))

\* parse_field_name: a letter or underscore, then letters, digits, _ and -.
RECURSIVE FieldNameEnd(_, _)
FieldNameEnd(t, j) ==
    IF end(t, j) THEN j
    ELSE IF is_alphanumeric(peek(t, j)) \/ peek(t, j) \in {"_", "-"} THEN FieldNameEnd(t, j + 1)
    ELSE j

FieldNameTo(t, i, j) == ParseOk(j, SubSeq(t, i + 1, j))

parse_field_name(t, i) ==
    IF end(t, i) THEN ParseErr(i, "Field name expected")
    ELSE IF is_alphabetic(peek(t, i)) \/ peek(t, i) = "_" THEN FieldNameTo(t, i, FieldNameEnd(t, i + 1))
    ELSE ParseErr(i, "Field name expected")

\* str::parse::<bool>: exactly "true" or "false".
parse_bool_str(s) ==
    IF s = <<"t", "r", "u", "e">> THEN Ok(BoolV(TRUE))
    ELSE IF s = <<"f", "a", "l", "s", "e">> THEN Ok(BoolV(FALSE))
    ELSE Err("ParseBoolError")

\* parse_string: a quote, then everything up to the same quote.
RECURSIVE StringFrom(_, _, _, _)
StringFrom(t, j, opened_quote, str) ==
    IF end(t, j) THEN ParseErr(j, "Query ended before string was closed")
    ELSE IF peek(t, j) = opened_quote THEN ParseOk(j + 1, StringV(str))
    ELSE StringFrom(t, j + 1, opened_quote, Append(str, peek(t, j)))

parse_string(t, i) ==
    IF end(t, i) THEN ParseErr(i, "Expected a quote symbol")
    ELSE IF peek(t, i) \in {"\"", "'"} THEN StringFrom(t, i + 1, peek(t, i), <<>>)
    ELSE ParseErr(i, "Expected a quote symbol")

\* str::parse::<f64> on the texts parse_number collects: [-]digits[.digits].
RECURSIVE DigitsValue(_)
DigitsValue(s) ==
    IF s = <<>> THEN 0
    ELSE IF is_numeric(s[Len(s)])
         THEN 10 * DigitsValue(SubSeq(s, 1, Len(s) - 1))
              + (CHOOSE n \in 0..9 : Digit(n) = s[Len(s)])
    ELSE DigitsValue(SubSeq(s, 1, Len(s) - 1))

Decimals(s) ==
    IF \E k \in 1..Len(s) : s[k] = "." THEN Len(s) - (CHOOSE k \in 1..Len(s) : s[k] = ".")
    ELSE 0

parse_f64(s) ==
    Rational((IF s[1] = "-" THEN 0 - 1 ELSE 1) * DigitsValue(s), IntPow(10, Decimals(s)))

\* parse_number: after the first digit, digits and at most one decimal sign.
RECURSIVE NumberFrom(_, _, _, _)
NumberFrom(t, i, j, has_decimal) ==
    IF end(t, j) THEN ParseOk(j, parse_f64(SubSeq(t, i + 1, j)))
    ELSE IF peek(t, j) = "."
         THEN IF has_decimal THEN ParseErr(j, "Can not have multiple decimal signs")
              ELSE NumberFrom(t, i, j + 1, TRUE)
    ELSE IF is_numeric(peek(t, j)) THEN NumberFrom(t, i, j + 1, has_decimal)
    ELSE ParseOk(j, parse_f64(SubSeq(t, i + 1, j)))

parse_number(t, i) ==
    IF end(t, i) THEN ParseErr(i, "Number expected")
    ELSE IF is_numeric(peek(t, i)) THEN NumberFrom(t, i, i + 1, FALSE)
    ELSE IF peek(t, i) # "-" THEN ParseErr(i, "Number can not start with")
    ELSE IF end(t, i + 1) THEN ParseErr(i + 1, "Number expected")
    ELSE IF is_numeric(peek(t, i + 1)) THEN NumberFrom(t, i, i + 2, FALSE)
    ELSE ParseErr(i + 1, "Number can not start with")

\* parse_bool is not implemented: it fails and leaves the cursor alone.
parse_bool(t, i) == ParseErr(i, "TODO: implement parse_bool")

\* parse_field_value: a string, else a number, else a bool, each tried from
\* where the one before left the cursor.
AfterNumber(t, n) == IF n.ok THEN n ELSE ParseErr(parse_bool(t, n.i).i, "No field value found")
AfterString(t, s) == IF s.ok THEN s ELSE AfterNumber(t, parse_number(t, s.i))
parse_field_value(t, i) == AfterString(t, parse_string(t, i))

\* Operator::OPERATOR_MAP.
OperatorKeys ==
    <<<<"A", "N", "D">>, <<"O", "R">>, <<"I", "N">>, <<"<">>, <<"<", "=">>, <<">">>, <<">", "=">>, <<"=", "=">>, <<"!", "=">>,
      <<"+">>, <<"-">>, <<"*">>, <<"/">>, <<"*", "*">>, <<"/", "/">>>>
OperatorNames ==
    <<"And", "Or", "In", "Lt", "Lte", "Gt", "Gte", "Eq", "Neq",
      "Plus", "Minus", "Multiply", "Divide", "Power", "FloorDivide">>

get_operator_first_chars == {OperatorKeys[k][1] : k \in 1..Len(OperatorKeys)}

\* Operator::from_str: look the upper-cased text up.
OperatorGet(u) ==
    IF \E k \in 1..Len(OperatorKeys) : OperatorKeys[k] = u
    THEN Ok(OperatorNames[CHOOSE k \in 1..Len(OperatorKeys) : OperatorKeys[k] = u])
    ELSE Err("Unknown operator")

Operator_from_str(s) == OperatorGet(str_to_uppercase(s))

\* try_parse_operator: push characters while remembering the last text that
\* was an operator; the first text that is none ends the loop if there is
\* a candidate.
RECURSIVE OperatorFrom(_, _, _, _)
OperatorPushed(t, j, potential_operator, parsed_operator, operator_candidate) ==
    IF parsed_operator.ok THEN OperatorFrom(t, j + 1, potential_operator, parsed_operator)
    ELSE IF operator_candidate.ok
         THEN IF is_alphabetic(potential_operator[1]) /\ ~is_whitespace(peek(t, j))
              THEN ParseErr(back(j, Len(potential_operator) - 1),
                            "Whitespace expected after alphabetic operator")
              ELSE ParseOk(j, operator_candidate.val)
    ELSE OperatorFrom(t, j + 1, potential_operator, operator_candidate)

OperatorPush(t, j, potential_operator, operator_candidate) ==
    OperatorPushed(t, j, potential_operator, Operator_from_str(potential_operator),
                   operator_candidate)

OperatorFrom(t, j, potential_operator, operator_candidate) ==
    IF end(t, j)
    THEN IF operator_candidate.ok THEN ParseOk(j, operator_candidate.val)
         ELSE ParseErr(j, "Did not found operator")
    ELSE OperatorPush(t, j, Append(potential_operator, peek(t, j)), operator_candidate)

try_parse_operator(t, i) ==
    IF end(t, i) THEN OperatorFrom(t, i, <<>>, Err("None"))
    ELSE IF to_ascii_uppercase(peek(t, i)) \in get_operator_first_chars
         THEN OperatorFrom(t, i, <<>>, Err("None"))
    ELSE ParseErr(i, "No operator starts with")

\* ExpressionElement::Function.
FunctionEl(f) == [k |-> "Function", f |-> f]

\* A parsed identifier as a function argument: a bool if it spells one.
ArgOfName(name, bool_value) == IF bool_value.ok THEN bool_value.val ELSE FieldNameArg(name)

\* parse_function, from the whitespace after '(' or after an argument on.
RECURSIVE ArgsLoop(_, _, _, _, _)
AfterArg(t, i, func_name, args) ==
    IF PeekIs(t, i, ",") THEN ArgsLoop(t, parse_whitespaces(t, i + 1), func_name, args, TRUE)
    ELSE ArgsLoop(t, parse_whitespaces(t, i), func_name, args, FALSE)

ArgValued(t, fv, func_name, args) ==
    IF fv.ok THEN AfterArg(t, parse_whitespaces(t, fv.i), func_name, Append(args, fv.val))
    ELSE fv

ArgNamed(t, i, field_name, func_name, args) ==
    IF field_name.ok
    THEN AfterArg(t, parse_whitespaces(t, field_name.i), func_name,
                  Append(args, ArgOfName(field_name.val, parse_bool_str(field_name.val))))
    ELSE ArgValued(t, parse_field_value(t, i), func_name, args)

ArgsLoop(t, i, func_name, args, found_comma) ==
    IF PeekIs(t, i, ")")
    THEN IF found_comma THEN ParseErr(i, "Can't have ')' after ','")
         ELSE ParseOk(i + 1, Function(func_name, args))
    ELSE IF ~end(t, i) /\ ~found_comma /\ args # <<>> THEN ParseErr(i, "Expected ',' or ')'")
    ELSE ArgNamed(t, i, parse_field_name(t, i), func_name, args)

\* parse_function with the name already read.
FunctionNamed(t, i, func_name) ==
    IF PeekIs(t, i, "(") THEN ArgsLoop(t, parse_whitespaces(t, i + 1), func_name, <<>>, FALSE)
    ELSE ParseErr(i, "Expected '('")

\* parse_function(peekable_query, None): the name is read first.
AfterFunctionName(t, field_name) ==
    IF field_name.ok THEN FunctionNamed(t, field_name.i, field_name.val) ELSE field_name

parse_function(t, i) == AfterFunctionName(t, parse_field_name(t, i))

\* parse_bool_field_name_or_function: an identifier is a call if '(' follows,
\* a bool if it spells one, a field name otherwise.
WrapFunction(r) == IF r.ok THEN ParseOk(r.i, FunctionEl(r.val)) ELSE r

BoolOrFieldName(i, name, bool_value) ==
    IF bool_value.ok THEN ParseOk(i, FieldValueEl(bool_value.val))
    ELSE ParseOk(i, FieldNameEl(name))

AfterName(t, field_name) ==
    IF ~field_name.ok THEN ParseErr(field_name.i, "No Function, nor FieldName found")
    ELSE IF PeekIs(t, field_name.i, "(")
         THEN WrapFunction(FunctionNamed(t, field_name.i, field_name.val))
    ELSE BoolOrFieldName(field_name.i, field_name.val, parse_bool_str(field_name.val))

parse_bool_field_name_or_function(t, i) == AfterName(t, parse_field_name(t, i))

\* parse_expression and the two functions it recurses through; els are
\* the expression elements pushed so far.
RECURSIVE parse_expression(_, _, _)
SkipWhitespaces(t, r) == IF r.ok THEN ParseOk(parse_whitespaces(t, r.i), r.val) ELSE r

\* After an operand or a closing bracket of parse_bracket_expression: an
\* operator and the expression after it, or the end of this expression.
AfterBracketOperator(t, op, els) ==
    IF op.ok THEN parse_expression(t, parse_whitespaces(t, op.i), Append(els, OperatorEl(op.val)))
    ELSE ParseOk(op.i, els)

AfterBracketed(t, inner) ==
    IF ~inner.ok THEN inner
    ELSE IF PeekIs(t, inner.i, ")")
         THEN AfterBracketOperator(t, try_parse_operator(t, parse_whitespaces(t, inner.i + 1)),
                                   Append(inner.val, ClosedBracket))
    ELSE ParseErr(inner.i, "Expected a ')'")

\* parse_bracket_expression without the push of the opening bracket.
parse_bracket_expression_unopened(t, i, els) ==
    AfterBracketed(t, parse_expression(t, parse_whitespaces(t, i + 1), els))

parse_bracket_expression(t, i, els) ==
    AfterBracketed(t, parse_expression(t, parse_whitespaces(t, i + 1), Append(els, OpenedBracket)))

\* The loop of parse_no_bracket_expression.
RECURSIVE OperatorLoop(_, _, _)
AfterLoopExpression(t, r) == IF r.ok THEN OperatorLoop(t, r.i, r.val) ELSE r

AfterLoopOperator(t, op, els) ==
    IF op.ok
    THEN AfterLoopExpression(t, parse_expression(t, parse_whitespaces(t, op.i),
                                                 Append(els, OperatorEl(op.val))))
    ELSE ParseOk(op.i, els)

OperatorLoop(t, i, els) == AfterLoopOperator(t, try_parse_operator(t, i), els)

AfterOperandValue(t, fv, els) ==
    IF fv.ok THEN OperatorLoop(t, parse_whitespaces(t, fv.i), Append(els, FieldValueEl(fv.val)))
    ELSE ParseErr(fv.i, "No FieldValue, Function, nor FieldName found")

AfterOperand(t, field_name_or_function, els) ==
    IF field_name_or_function.ok
    THEN OperatorLoop(t, parse_whitespaces(t, field_name_or_function.i),
                      Append(els, field_name_or_function.val))
    ELSE AfterOperandValue(t, parse_field_value(t, field_name_or_function.i), els)

parse_no_bracket_expression(t, i, els) ==
    AfterOperand(t, parse_bool_field_name_or_function(t, i), els)

parse_expression(t, i, els) ==
    IF end(t, i) THEN ParseErr(i, "Expected expression, but found nothing")
    ELSE IF peek(t, i) = "(" THEN SkipWhitespaces(t, parse_bracket_expression(t, i, els))
    ELSE SkipWhitespaces(t, parse_no_bracket_expression(t, i, els))

\* parse_select: SELECT, whitespace, field names separated by commas.
RECURSIVE SelectLoop(_, _, _)
AfterSelectField(t, i, select_fields) ==
    IF PeekIs(t, i, ",") THEN SelectLoop(t, i + 1, select_fields) ELSE ParseOk(i, select_fields)

SelectField(t, field_name, select_fields) ==
    IF field_name.ok
    THEN AfterSelectField(t, parse_whitespaces(t, field_name.i),
                          Append(select_fields, field_name.val))
    ELSE field_name

SelectLoop(t, i, select_fields) ==
    SelectField(t, parse_field_name(t, parse_whitespaces(t, i)), select_fields)

AfterSelectKeyword(t, k) == IF k.ok THEN SelectLoop(t, k.i, <<>>) ELSE k
parse_select(t, i) == AfterSelectKeyword(t, KeywordAndWhitespace(t, i, <<"S", "E", "L", "E", "C", "T">>))

\* parse_from: FROM, whitespace, a function call.
AfterFromKeyword(t, k) == IF k.ok THEN parse_function(t, parse_whitespaces(t, k.i)) ELSE k
parse_from(t, i) == AfterFromKeyword(t, KeywordAndWhitespace(t, i, <<"F", "R", "O", "M">>))

\* parse_where: WHERE, whitespace, an expression.
AfterWhereKeyword(t, k) == IF k.ok THEN parse_expression(t, parse_whitespaces(t, k.i), <<>>) ELSE k
parse_where(t, i) == AfterWhereKeyword(t, KeywordAndWhitespace(t, i, <<"W", "H", "E", "R", "E">>))

\* parse_sort_direction: ASC, else DESC from where the attempt at ASC stopped.
AfterDesc(d) == IF d.ok THEN ParseOk(d.i, "DESC") ELSE d
AfterAsc(t, a) ==
    IF a.ok THEN ParseOk(a.i, "ASC") ELSE AfterDesc(parse_keyword(t, a.i, <<"D", "E", "S", "C">>, FALSE))
parse_sort_direction(t, i) == AfterAsc(t, parse_keyword(t, i, <<"A", "S", "C">>, FALSE))

\* parse_order_by: ORDER BY, whitespace, field names with an optional
\* direction, separated by commas.
RECURSIVE OrderLoop(_, _, _)
OrderPushed(t, i, order_by_options) ==
    IF PeekIs(t, i, ",") THEN OrderLoop(t, i + 1, order_by_options)
    ELSE ParseOk(i, order_by_options)

AfterDirection(t, od, field_name, order_by_options) ==
    IF od.ok
    THEN OrderPushed(t, od.i, Append(order_by_options, OrderByFieldOption(field_name, od.val)))
    ELSE od

OrderDirectionAt(t, i, field_name, order_by_options) ==
    IF end(t, i) \/ PeekIs(t, i, ",")
    THEN OrderPushed(t, i, Append(order_by_options, OrderByFieldOption(field_name, "ASC")))
    ELSE AfterDirection(t, parse_sort_direction(t, i), field_name, order_by_options)

OrderField(t, field_name, order_by_options) ==
    IF field_name.ok
    THEN OrderDirectionAt(t, parse_whitespaces(t, field_name.i), field_name.val, order_by_options)
    ELSE field_name

OrderLoop(t, i, order_by_options) ==
    OrderField(t, parse_field_name(t, parse_whitespaces(t, i)), order_by_options)

AfterOrderKeyword(t, k) == IF k.ok THEN OrderLoop(t, k.i, <<>>) ELSE k
parse_order_by(t, i) == AfterOrderKeyword(t, KeywordAndWhitespace(t, i, <<"O", "R", "D", "E", "R", " ", "B", "Y">>))

\* Query::from_str: SELECT always; FROM, WHERE and ORDER BY when the cursor
\* is on their first letter.  Nothing looks at what is left after the last
\* clause.
WrapSome(r) == IF r.ok THEN ParseOk(r.i, SomeFunction(r.val)) ELSE r

FromClause(t, i) ==
    IF PeekIs(t, i, "f") \/ PeekIs(t, i, "F") THEN WrapSome(parse_from(t, i))
    ELSE ParseOk(i, NoFunction)

WhereClause(t, i) ==
    IF PeekIs(t, i, "w") \/ PeekIs(t, i, "W") THEN parse_where(t, i) ELSE ParseOk(i, <<>>)

OrderByClause(t, i) ==
    IF PeekIs(t, i, "o") \/ PeekIs(t, i, "O") THEN parse_order_by(t, i) ELSE ParseOk(i, <<>>)

AfterOrderBy(ob, select_fields, from_function, where_expression) ==
    IF ob.ok THEN ParseOk(ob.i, Query(select_fields, from_function, where_expression, ob.val))
    ELSE ParseErr(ob.i, "Error parsing ORDER BY")

AfterWhere(t, we, select_fields, from_function) ==
    IF we.ok
    THEN AfterOrderBy(OrderByClause(t, parse_whitespaces(t, we.i)),
                      select_fields, from_function, we.val)
    ELSE ParseErr(we.i, "Error parsing WHERE")

AfterFromWhitespace(t, ws, select_fields, from_function) ==
    IF ws.ok
    THEN AfterWhere(t, WhereClause(t, parse_whitespaces(t, ws.i)), select_fields, from_function)
    ELSE ParseErr(ws.i, "Expected whitespace")

AfterFrom(t, ff, select_fields) ==
    IF ~ff.ok THEN ParseErr(ff.i, "Error parsing FROM")
    ELSE IF ~end(t, ff.i) /\ ff.val.some
         THEN AfterFromWhitespace(t, parse_mandatory_whitespace(t, ff.i), select_fields, ff.val)
    ELSE AfterWhere(t, WhereClause(t, parse_whitespaces(t, ff.i)), select_fields, ff.val)

AfterSelect(t, sf) ==
    IF sf.ok THEN AfterFrom(t, FromClause(t, sf.i), sf.val)
    ELSE ParseErr(sf.i, "Error parsing SELECT")

from_str(t) == AfterSelect(t, parse_select(t, 0))

(***************************************************************************)
(* Parsing query texts.  A text is put together from a SELECT, a FROM, a   *)
(* WHERE and an ORDER BY part and from what follows them; each part is a   *)
(* sequence of lexemes and may be absent.                                  *)
(***************************************************************************)
SelectParts ==
    {<<>>, <<<<"S", "E", "L", "E", "C", "T">>, <<" ">>, <<"a">>, <<" ">>>>, <<<<"s", "e", "l", "e", "c", "t">>, <<" ">>, <<"a">>, <<",">>, <<"b">>, <<" ">>>>, <<<<"S", "e", "L", "e", "C", "t">>, <<" ">>, <<"a">>, <<" ">>>>}

FromParts ==
    {<<>>, <<<<"F", "R", "O", "M">>, <<" ">>, <<"f">>, <<"(">>, <<"'", "d", "'">>, <<")">>, <<" ">>>>, <<<<"f", "r", "o", "m">>, <<" ">>, <<"f">>, <<"(">>, <<"'", "d", "'">>, <<",">>, <<" ">>, <<"1">>, <<")">>, <<" ">>>>}

\* WHERE parts the grammar allows and this parser knows the operators of.
GrammaticalWheres ==
    {<<>>,
     <<<<"W", "H", "E", "R", "E">>, <<" ">>, <<"a">>, <<" ">>, <<"A", "N", "D">>, <<" ">>, <<"T", "R", "U", "E">>, <<" ">>>>, <<<<"w", "h", "e", "r", "e">>, <<" ">>, <<"a">>, <<" ">>, <<"a", "n", "d">>, <<" ">>, <<"t", "r", "u", "e">>, <<" ">>>>,
     <<<<"W", "H", "E", "R", "E">>, <<" ">>, <<"(">>, <<"a">>, <<" ">>, <<"O", "R">>, <<" ">>, <<"b">>, <<")">>, <<" ">>>>, <<<<"W", "h", "e", "r", "e">>, <<" ">>, <<"(">>, <<"a">>, <<" ">>, <<"o", "r">>, <<" ">>, <<"b">>, <<")">>, <<" ">>>>,
     <<<<"W", "H", "E", "R", "E">>, <<" ">>, <<"a">>, <<" ">>, <<"I", "N">>, <<" ">>, <<"g">>, <<"(">>, <<"b">>, <<")">>, <<" ">>>>, <<<<"w", "H", "e", "R", "e">>, <<" ">>, <<"a">>, <<" ">>, <<"i", "N">>, <<" ">>, <<"g">>, <<"(">>, <<"b">>, <<")">>, <<" ">>>>,
     <<<<"W", "H", "E", "R", "E">>, <<" ">>, <<"a">>, <<" ">>, <<"=", "=">>, <<" ">>, <<"-", "1", ".", "5">>, <<" ">>>>,
     <<<<"W", "H", "E", "R", "E">>, <<" ">>, <<"a">>, <<" ">>, <<"<">>, <<" ">>, <<"F", "A", "L", "S", "E">>, <<" ">>>>, <<<<"W", "H", "E", "R", "E">>, <<" ">>, <<"a">>, <<" ">>, <<"<">>, <<" ">>, <<"f", "a", "l", "s", "e">>, <<" ">>>>}

WhereParts ==
    GrammaticalWheres
    \cup {<<<<"W", "H", "E", "R", "E">>, <<" ">>, <<"a">>, <<" ">>, <<"=">>, <<" ">>, <<"1">>, <<" ">>>>, <<<<"W", "H", "E", "R", "E">>, <<" ">>, <<"a">>, <<" ">>, <<"A", "N", "N">>, <<" ">>, <<"b">>, <<" ">>>>,
          <<<<"W", "H", "E", "R", "E">>, <<" ">>, <<"a">>, <<" ">>, <<"L", "I", "K", "E">>, <<" ">>, <<"'", "x", "'">>, <<" ">>>>, <<<<"W", "H", "E", "R", "E">>, <<" ">>, <<"a">>, <<" ">>, <<"l", "i", "k", "e">>, <<" ">>, <<"'", "x", "'">>, <<" ">>>>}

OrderParts ==
    {<<>>, <<<<"O", "R", "D", "E", "R", " ", "B", "Y">>, <<" ">>, <<"a">>>>, <<<<"o", "r", "d", "e", "r", " ", "b", "y">>, <<" ">>, <<"a">>, <<" ">>, <<"d", "e", "s", "c">>>>, <<<<"O", "r", "d", "e", "r", " ", "B", "y">>, <<" ">>, <<"a">>, <<" ">>, <<"D", "E", "S", "C">>, <<",">>, <<" ">>, <<"b">>, <<" ">>, <<"a", "s", "c">>>>}

TrailParts == {<<>>, <<<<" ">>>>, <<<<" ">>, <<"x">>>>, <<<<" ">>, <<"1">>>>}

QueryTexts ==
    [select : SelectParts, from : FromParts, where : WhereParts,
     order : OrderParts, trail : TrailParts]

RECURSIVE Flatten(_)
Flatten(lexemes) ==
    IF lexemes = <<>> THEN <<>> ELSE Head(lexemes) \o Flatten(Tail(lexemes))

\* The characters of a text.
Chars(q) == Flatten(q.select \o q.from \o q.where \o q.order \o q.trail)

InitParse ==
    /\ queryText \in QueryTexts
    /\ cursor = 0
    /\ parsed = NotParsed
    /\ LikeIdle
    /\ MarkdownIdle
    /\ RaceIdle
    /\ expression = <<>>
    /\ evalResult = NotRun
    /\ ExecIdle
    /\ CacheIdle

\* Whether the parser has run.
HasParsed == parsed.i >= 0

\* query.parse::<Query>()
Parse ==
    /\ ~HasParsed
    /\ \E r \in {from_str(Chars(queryText))} :
           /\ parsed' = r
           /\ cursor' = r.i
    /\ UNCHANGED <<queryText, evalVars, execVars, cacheVars, likeVars, markdownVars, raceVars>>

NextParse == Parse

SpecParse == InitParse /\ [][NextParse]_vars

\* C11: a text is accepted only if nothing but whitespace is left after
\* the last clause the parser recognised.
C11_NoTrailingGarbage ==
    (HasParsed /\ parsed.ok)
        => \A k \in (cursor + 1)..Len(Chars(queryText)) : is_whitespace(Chars(queryText)[k])

\* The canonical spelling of a lexeme: keywords and alphabetic operators in
\* upper case, the booleans in lower case, everything else as it is.
str_to_lowercase(s) == [k \in 1..Len(s) |-> to_ascii_lowercase(s[k])]

Keywords ==
    {<<"S", "E", "L", "E", "C", "T">>, <<"F", "R", "O", "M">>, <<"W", "H", "E", "R", "E">>, <<"O", "R", "D", "E", "R", " ", "B", "Y">>, <<"A", "S", "C">>, <<"D", "E", "S", "C">>, <<"A", "N", "D">>, <<"O", "R">>, <<"I", "N">>,
     <<"L", "I", "K", "E">>, <<"N", "O", "T", " ", "L", "I", "K", "E">>}

Canonical(lexeme) ==
    IF str_to_uppercase(lexeme) \in Keywords THEN str_to_uppercase(lexeme)
    ELSE IF str_to_lowercase(lexeme) \in {<<"t", "r", "u", "e">>, <<"f", "a", "l", "s", "e">>} THEN str_to_lowercase(lexeme)
    ELSE lexeme

CanonicalPart(part) == [k \in 1..Len(part) |-> Canonical(part[k])]

CanonicalText(q) ==
    [select |-> CanonicalPart(q.select), from |-> CanonicalPart(q.from),
     where |-> CanonicalPart(q.where), order |-> CanonicalPart(q.order),
     trail |-> CanonicalPart(q.trail)]

SamePlan(p, c) == IF p.ok /\ c.ok THEN p.val = c.val ELSE p.ok = c.ok

\* C13: a text parses to the plan its canonical spelling parses to, however
\* the keywords, the alphabetic operators and the booleans are cased.
C13_KeywordsInAnyCase ==
    HasParsed => SamePlan(parsed, from_str(Chars(CanonicalText(queryText))))

\* The parts that are left out of the text.
Omits(part) == part = <<>>

\* C14: a text of grammatical clauses, any of them left out, is accepted,
\* and a clause left out is empty in the plan.
C14_EveryClauseOptional ==
    (/\ HasParsed
     /\ queryText.where \in GrammaticalWheres
     /\ queryText.trail \in {<<>>, <<<<" ">>>>})
        => /\ parsed.ok
           /\ Omits(queryText.select) => parsed.val.select_fields = <<>>
           /\ Omits(queryText.from) => ~parsed.val.from_function.some
           /\ Omits(queryText.where) => parsed.val.where_expression = <<>>
           /\ Omits(queryText.order) => parsed.val.order_by_fields = <<>>

(***************************************************************************)
(* try_parse_operator on its own: any short text over the characters       *)
(* operators are written with, the cursor at its first or second           *)
(* character.                                                              *)
(***************************************************************************)
OperatorAlphabet == {"A", "N", "D", "o", "r", " ", "<", "=", "1"}

OperatorTexts ==
    UNION {[1..n -> {<<c>> : c \in OperatorAlphabet}] : n \in 0..MaxOperatorText}

InitOperator ==
    /\ \E lexemes \in OperatorTexts :
           queryText = [select |-> <<>>, from |-> <<>>, where |-> lexemes,
                        order |-> <<>>, trail |-> <<>>]
    /\ cursor \in 0..1
    /\ cursor <= Len(queryText.where)
    /\ parsed = NotParsed
    /\ LikeIdle
    /\ MarkdownIdle
    /\ RaceIdle
    /\ expression = <<>>
    /\ evalResult = NotRun
    /\ ExecIdle
    /\ CacheIdle

\* Query::try_parse_operator(&mut peekable_query); the index the cursor had
\* before the call is kept with the result.
TryParseOperator ==
    /\ ~HasParsed
    /\ \E r \in {try_parse_operator(Chars(queryText), cursor)} :
           /\ parsed' = [ok |-> r.ok, i |-> r.i, val |-> r.val, from |-> cursor]
           /\ cursor' = r.i
    /\ UNCHANGED <<queryText, evalVars, execVars, cacheVars, likeVars, markdownVars, raceVars>>

NextOperator == TryParseOperator

SpecOperator == InitOperator /\ [][NextOperator]_vars

\* C12: when try_parse_operator fails the cursor is where it was before
\* the call.
C12_FailureLeavesCursor ==
    (HasParsed /\ ~parsed.ok) => cursor = parsed.from


(***************************************************************************)
(* The cache file after an incremental ingestion.                          *)
(***************************************************************************)
\* The files the last ingestion parsed and could read.
Reparsed == lastRun.parsed \ lastRun.failed

\* The last ingestion loaded a non-empty cache and set out to parse a file.
IncrementalReparse ==
    /\ lastRun.dir # "none"
    /\ lastRun.cacheBefore # EmptyMap
    /\ lastRun.parsed # {}

\* C16: after an ingestion that loaded a non-empty cache and parsed at least
\* one file again, the cache file holds the loaded map with the records
\* parsed in this run inserted or replaced and every other entry, those of
\* other directories included, as it was; the returned map holds only files
\* found under the requested directory.
C16_MergedWrittenRetainedReturned ==
    IncrementalReparse =>
        /\ DOMAIN cacheFile = DOMAIN lastRun.cacheBefore \cup Reparsed
        /\ \A p \in DOMAIN cacheFile \ Reparsed : cacheFile[p] = lastRun.cacheBefore[p]
        /\ \A p \in Reparsed :
            /\ cacheFile[p] = lastRun.returned[p]
            /\ cacheFile[p].modified = to_rfc3339(lastRun.mtimes[p])
        /\ DOMAIN lastRun.returned \subseteq DOMAIN lastRun.mtimes
        /\ \A p \in DOMAIN lastRun.returned : DirOf(p) = lastRun.dir

\* d2 and d1 were ingested, d1/a.md was written at 10.5 s, and d1 was ingested
\* again: a.md's entry is replaced, b.md's and d2/c.md's are kept, and a.md
\* and b.md are returned.
C16_Witness ==
    /\ IncrementalReparse
    /\ lastRun.dir = "d1"
    /\ DOMAIN lastRun.cacheBefore = {"d1/a.md", "d1/b.md", "d2/c.md"}
    /\ lastRun.parsed = {"d1/a.md"}
    /\ lastRun.failed = {}
    /\ lastRun.cacheBefore["d1/a.md"].modified = to_rfc3339(20)
    /\ cacheFile["d1/a.md"].modified = to_rfc3339(21)
    /\ cacheFile["d2/c.md"] = lastRun.cacheBefore["d2/c.md"]
    /\ DOMAIN lastRun.returned = {"d1/a.md", "d1/b.md"}


(***************************************************************************)
(* Ingestion when the cache file is lost, locked or damaged.               *)
(***************************************************************************)
InitDamage ==
    /\ fs \in [Paths -> {NoFile, File(20, 1, TRUE), File(20, 1, FALSE)}]
    /\ cacheFile = EmptyMap
    /\ cacheDirOk \in BOOLEAN
    /\ prevRun = NoRun
    /\ lastRun = NoRun
    /\ changes = 0
    /\ expression = <<>>
    /\ evalResult = NotRun
    /\ ParseIdle
    /\ LikeIdle
    /\ MarkdownIdle
    /\ RaceIdle
    /\ elsewhere = [p \in Paths |-> NoFile]
    /\ ExecIdle

\* The environment overwrites the cache file with bytes that are no map.
DamageCache ==
    /\ cacheFile # Garbage
    /\ cacheFile' = Garbage
    /\ UNCHANGED <<fs, cacheDirOk, prevRun, lastRun, changes, elsewhere, evalVars, execVars,
                   parseVars, likeVars, markdownVars, raceVars>>

\* The environment deletes the cache file.
RemoveCache ==
    /\ cacheFile # EmptyMap
    /\ cacheFile' = EmptyMap
    /\ UNCHANGED <<fs, cacheDirOk, prevRun, lastRun, changes, elsewhere, evalVars, execVars,
                   parseVars, likeVars, markdownVars, raceVars>>

\* The environment takes away, or gives back, the permission to open the
\* cache file.
LockCache ==
    /\ cacheDirOk' = ~cacheDirOk
    /\ UNCHANGED <<fs, cacheFile, prevRun, lastRun, changes, elsewhere, evalVars, execVars,
                   parseVars, likeVars, markdownVars, raceVars>>

NextDamage ==
    \/ Ingest
    \/ DamageCache
    \/ RemoveCache
    \/ LockCache

SpecDamage == InitDamage /\ [][NextDamage]_vars

\* The cache file is missing, cannot be opened, or does not deserialize.
CacheUnusable == cacheFile = EmptyMap \/ ~cacheDirOk \/ ~deserialize_ok(cacheFile)

\* C18: an ingestion that finds the cache file missing, unreadable or not
\* deserializable parses every file found under the directory and returns
\* the records of those it could read, as an ingestion with an empty cache
\* does.
C18_UnusableCacheIsEmptyCache ==
    [][(Ingest /\ CacheUnusable) =>
          /\ lastRun'.parsed = get_markdown_files(lastRun'.dir, fs)
          /\ lastRun'.returned = parse_files(get_markdown_files(lastRun'.dir, fs), fs)
          /\ lastRun'.returned =
                get_markdown_files_info(lastRun'.dir, fs, EmptyMap, TRUE).returned]_vars

\* d1 was ingested and its two records cached; then the cache file was
\* damaged or locked, and the next ingestion of d1 loaded nothing, parsed
\* both files again and returned both records.
C18_Witness ==
    /\ prevRun.dir = "d1"
    /\ DOMAIN prevRun.returned = {"d1/a.md", "d1/b.md"}
    /\ prevRun.cacheBefore = EmptyMap
    /\ lastRun.dir = "d1"
    /\ lastRun.cacheBefore = EmptyMap
    /\ lastRun.parsed = {"d1/a.md", "d1/b.md"}
    /\ DOMAIN lastRun.returned = {"d1/a.md", "d1/b.md"}
    /\ cacheDirOk
    /\ DOMAIN cacheFile = {"d1/a.md", "d1/b.md"}


(***************************************************************************)
(* Ingestion of a relative directory from two working directories.  fs is  *)
(* the tree under the current working directory, elsewhere the tree under  *)
(* the other one; a path is the text get_markdown_files yields for it,     *)
(* the directory as given followed by the file's path below it.            *)
(***************************************************************************)
FrontMatters == {1, 3, 4, 5}

InitChdir ==
    /\ fs \in [Paths -> {NoFile} \cup {File(20, c, TRUE) : c \in FrontMatters}]
    /\ elsewhere \in [Paths -> {NoFile, File(20, 2, TRUE)}]
    /\ cacheFile = EmptyMap
    /\ cacheDirOk = TRUE
    /\ prevRun = NoRun
    /\ lastRun = NoRun
    /\ changes = 0
    /\ expression = <<>>
    /\ evalResult = NotRun
    /\ ParseIdle
    /\ LikeIdle
    /\ MarkdownIdle
    /\ RaceIdle
    /\ ExecIdle

\* std::env::set_current_dir to the other working directory.
Chdir ==
    /\ fs' = elsewhere
    /\ elsewhere' = fs
    /\ UNCHANGED <<cacheFile, cacheDirOk, prevRun, lastRun, changes, evalVars, execVars,
                   parseVars, likeVars, markdownVars, raceVars>>

NextChdir ==
    \/ Ingest
    \/ Chdir

SpecChdir == InitChdir /\ [][NextChdir]_vars

\* C17: a record an ingestion returns for a file is the record of that very
\* file, the one at that path under the current working directory, and
\* never the record of the file another working directory has at the same
\* relative path.
C17_EntryOnlyForItsFile ==
    [][Ingest => \A p \in DOMAIN lastRun'.returned : lastRun'.returned[p] = parse_file(p, fs)]_vars

\* The synthesized `file` hash of a record.
HasFileHash(record) ==
    /\ record.t = "Hash"
    /\ KeyFile \in DOMAIN record.v
    /\ record.v[KeyFile].t = "Hash"
    /\ {KeyName, KeyPath} \subseteq DOMAIN record.v[KeyFile].v

\* C19: every record an ingestion returns is a hash whose `file` key holds
\* the synthesized hash with at least `name` and `path`.
C19_EveryRecordHasFileHash ==
    \A p \in DOMAIN lastRun.returned : HasFileHash(lastRun.returned[p].frontmatter)


(***************************************************************************)
(* LIKE and NOT LIKE (executor.rs, execute_operation_like) and the cache   *)
(* of compiled patterns.  A pattern is a text over literals, `.`, `*` and  *)
(* `[`; a compiled pattern is its sequence of items, each a literal or     *)
(* `.`, repeated or not.                                                   *)
(***************************************************************************)
\* The capacity of REGEX_CACHE.  The program's is 100; the model runs with
\* a capacity that the patterns below can fill.
MaxRegexCache == 2

Item(c, star) == [c |-> c, star |-> star]

\* Regex::new: the items of a pattern, or an error for a class that is
\* never closed and for a repetition with nothing to repeat.
RECURSIVE CompileFrom(_, _, _)
CompileFrom(pattern, k, items) ==
    IF k > Len(pattern) THEN [ok |-> TRUE, items |-> items]
    ELSE IF pattern[k] = "[" THEN [ok |-> FALSE, items |-> <<>>]
    ELSE IF pattern[k] = "*"
    THEN IF Len(items) = 0 THEN [ok |-> FALSE, items |-> <<>>]
         ELSE CompileFrom(pattern, k + 1,
                          [items EXCEPT ![Len(items)] = Item(items[Len(items)].c, TRUE)])
    ELSE CompileFrom(pattern, k + 1, Append(items, Item(pattern[k], FALSE)))

Regex_new(pattern) == CompileFrom(pattern, 1, <<>>)

ItemAccepts(item, c) == item.c = "." \/ item.c = c

\* The items from the k-th on match a stretch of the text that starts at i.
RECURSIVE MatchAt(_, _, _, _)
MatchAt(items, k, text, i) ==
    IF k > Len(items) THEN TRUE
    ELSE IF items[k].star
    THEN \/ MatchAt(items, k + 1, text, i)
         \/ /\ i <= Len(text)
            /\ ItemAccepts(items[k], text[i])
            /\ MatchAt(items, k, text, i + 1)
    ELSE /\ i <= Len(text)
         /\ ItemAccepts(items[k], text[i])
         /\ MatchAt(items, k + 1, text, i + 1)

\* Regex::is_match: the pattern matches somewhere in the text.
is_match(items, text) == \E i \in 1..(Len(text) + 1) : MatchAt(items, 1, text, i)

\* The cache: its entries, the most recently used first.
CacheEntry(key, re) == [key |-> key, re |-> re]
CacheIndex(cache, key) ==
    IF \E i \in 1..Len(cache) : cache[i].key = key
    THEN CHOOSE i \in 1..Len(cache) : cache[i].key = key
    ELSE 0

Promote(cache, i) ==
    <<cache[i]>> \o SubSeq(cache, 1, i - 1) \o SubSeq(cache, i + 1, Len(cache))

\* A lookup that takes the most recently used entry, whatever its key.
lru_get_newest(cache, key) ==
    IF Len(cache) = 0 THEN [some |-> FALSE, re |-> <<>>, cache |-> cache]
    ELSE [some |-> TRUE, re |-> cache[1].re, cache |-> cache]

\* A lookup that leaves the order of the entries as it is.
lru_get_unpromoted(cache, key) ==
    IF CacheIndex(cache, key) = 0 THEN [some |-> FALSE, re |-> <<>>, cache |-> cache]
    ELSE [some |-> TRUE, re |-> cache[CacheIndex(cache, key)].re, cache |-> cache]

\* LruCache::get: the entry of the key, which becomes the most recently
\* used.
lru_get(cache, key) ==
    IF CacheIndex(cache, key) = 0 THEN [some |-> FALSE, re |-> <<>>, cache |-> cache]
    ELSE [some |-> TRUE, re |-> cache[CacheIndex(cache, key)].re,
          cache |-> Promote(cache, CacheIndex(cache, key))]

\* LruCache::put of a key the cache does not hold: the least recently used
\* entry goes when the cache is full.
lru_put(cache, key, re) ==
    <<CacheEntry(key, re)>>
    \o (IF Len(cache) >= MaxRegexCache THEN SubSeq(cache, 1, MaxRegexCache - 1) ELSE cache)

LikeOutcome(result, cache) == [result |-> result, cache |-> cache]

AfterCompile(cache, a, b, compiled) ==
    IF compiled.ok
    THEN LikeOutcome(is_match(compiled.items, a.v), lru_put(cache, b.v, compiled.items))
    ELSE LikeOutcome(FALSE, cache)

AfterGet(cache, a, b, got) ==
    IF got.some THEN LikeOutcome(is_match(got.re, a.v), got.cache)
    ELSE AfterCompile(cache, a, b, Regex_new(b.v))

\* execute_operation_like: the result and the cache afterwards.
execute_operation_like(cache, a, b) ==
    IF a.t = "String" /\ b.t = "String" THEN AfterGet(cache, a, b, lru_get(cache, b.v))
    ELSE LikeOutcome(FALSE, cache)

\* execute_operation's arms for Operator::Like and Operator::NotLike.
execute_operation_like_arm(op, outcome_like) ==
    IF op = "Like" THEN Ok(BoolV(outcome_like.result)) ELSE Ok(BoolV(~outcome_like.result))

LikeTexts == {StringV(<<>>), StringV(<<"a">>), StringV(<<"b">>), StringV(<<"a", "b">>), StringV(<<"b", "a">>),
              NumberV(1)}
LikePatterns == {StringV(<<>>), StringV(<<"a">>), StringV(<<"a", "b">>), StringV(<<".">>), StringV(<<"a", "*", "b">>),
                 StringV(<<"b", ".">>), StringV(<<".", "*", "a">>), StringV(<<"[", "a">>), StringV(<<"*", "a">>),
                 StringV(<<"a", "[">>), NumberV(1)}

InitLike ==
    /\ regexCache = <<>>
    /\ likeResult = <<>>
    /\ MarkdownIdle
    /\ RaceIdle
    /\ expression = <<>>
    /\ evalResult = NotRun
    /\ ExecIdle
    /\ CacheIdle
    /\ ParseIdle

\* One evaluation of left LIKE right or left NOT LIKE right.
ExecuteLike ==
    \E op \in {"Like", "NotLike"}, left \in LikeTexts, right \in LikePatterns :
        \E r \in {execute_operation_like(regexCache, left, right)} :
            /\ regexCache' = r.cache
            /\ likeResult' = <<[op |-> op, left |-> left, right |-> right,
                               cacheBefore |-> regexCache,
                               res |-> execute_operation_like_arm(op, r)]>>
            /\ UNCHANGED <<evalVars, execVars, cacheVars, parseVars, markdownVars, raceVars>>

NextLike == ExecuteLike

SpecLike == InitLike /\ [][NextLike]_vars

\* The pattern compiles and matches the text.
CompilesAndMatches(text, pattern) ==
    /\ Regex_new(pattern).ok
    /\ is_match(Regex_new(pattern).items, text)

LastLike == likeResult[1]
OnStrings == likeResult # <<>> /\ LastLike.left.t = "String" /\ LastLike.right.t = "String"

\* C20: on string operands LIKE is true exactly when the pattern compiles
\* and matches the text, and NOT LIKE is its negation, whatever the cache
\* of compiled patterns held before the evaluation.
C20_LikeIsCompileAndMatch ==
    OnStrings =>
        /\ LastLike.res.ok
        /\ LastLike.res.val =
             BoolV(IF LastLike.op = "Like"
                   THEN CompilesAndMatches(LastLike.left.v, LastLike.right.v)
                   ELSE ~CompilesAndMatches(LastLike.left.v, LastLike.right.v))

\* `ab` NOT LIKE `[a` is true with a full cache that holds other patterns,
\* or `ba` LIKE `a*b` was answered from the cache behind a more recently
\* used pattern.
C20_Witness ==
    /\ OnStrings
    /\ Len(LastLike.cacheBefore) = MaxRegexCache
    /\ \/ /\ LastLike.op = "NotLike"
          /\ LastLike.right.v = <<"[", "a">>
          /\ LastLike.left.v = <<"a", "b">>
          /\ LastLike.res.val = BoolV(TRUE)
       \/ /\ LastLike.op = "Like"
          /\ LastLike.right.v = <<"a", "*", "b">>
          /\ LastLike.left.v = <<"b", "a">>
          /\ LastLike.cacheBefore[2].key = <<"a", "*", "b">>
          /\ LastLike.res.val = BoolV(TRUE)


(***************************************************************************)
(* The order of the cache of compiled patterns.                            *)
(***************************************************************************)
CacheKeys(cache) == [i \in 1..Len(cache) |-> cache[i].key]

Without(keys, key) == SelectSeq(keys, LAMBDA k : k # key)

Take(keys, n) == SubSeq(keys, 1, IF Len(keys) < n THEN Len(keys) ELSE n)

\* The patterns in the order of their last use after one more evaluation:
\* a pattern that is a string and compiles becomes the most recently used,
\* any other leaves the order as it is.
UsedNext(keys, left, right) ==
    IF left.t = "String" /\ right.t = "String" /\ Regex_new(right.v).ok
    THEN <<right.v>> \o Without(keys, right.v)
    ELSE keys

\* A step of the evaluator leaves the operands it evaluated in likeResult.
Evaluated == likeResult # <<>>

\* C29: the cache, empty at first, never holds more than its capacity after
\* an evaluation, and it holds the most recently used patterns in the order
\* of their last use: an
\* evaluation moves its pattern to the front, and when that makes one more
\* than the capacity, the one that goes is the least recently used.
C29_BoundedLeastRecentlyUsed ==
    [][Evaluated' =>
        /\ Len(regexCache') <= MaxRegexCache
        /\ CacheKeys(regexCache') =
                Take(UsedNext(CacheKeys(regexCache), likeResult'[1].left, likeResult'[1].right),
                     MaxRegexCache)]_vars

\* A pattern new to a full cache was evaluated after the least recently
\* used entry had been looked up again: the entry that went is the other
\* one, and the cache holds the new pattern and the one looked up.
C29_Witness ==
    /\ OnStrings
    /\ Len(LastLike.cacheBefore) = MaxRegexCache
    /\ CacheIndex(LastLike.cacheBefore, LastLike.right.v) = 0
    /\ Regex_new(LastLike.right.v).ok
    /\ Len(regexCache) = MaxRegexCache
    /\ regexCache[1].key = LastLike.right.v
    /\ regexCache[2].key = LastLike.cacheBefore[1].key
    /\ LastLike.cacheBefore[1].key = <<"a">>
    /\ LastLike.cacheBefore[MaxRegexCache].key = <<".">>
    /\ LastLike.right.v = <<"a", "b">>


(***************************************************************************)
(* execute_where and the order of the fetched records.                     *)
(***************************************************************************)
Orders(n) == {f \in [1..n -> 1..n] : \A i, j \in 1..n : f[i] = f[j] => i = j}

Reordered(data, f) == [i \in 1..Len(data) |-> data[f[i]]]

Occurrences(data, pod) == Cardinality({i \in 1..Len(data) : data[i] = pod})

SameRecords(left, right) ==
    /\ Len(left) = Len(right)
    /\ \A i \in 1..Len(left) : Occurrences(left, left[i]) = Occurrences(right, left[i])

\* C27: whether execute_where fails, and which records it keeps, is the
\* same for the fetched records in every order.
C27_OrderDoesNotMatter ==
    outcome # "NotRun" =>
        \A f \in Orders(Len(fetched)) :
            \E other \in {execute_where(expression, Reordered(fetched, f))} :
                /\ other.outcome = outcome
                /\ outcome = "Ok" => SameRecords(other.data, records)


(***************************************************************************)
(* DATE and DATEADD calls evaluated on one record.                         *)
(***************************************************************************)
KeyD == <<"d">>

CallNames == {<<"D", "A", "T", "E", "A", "D", "D">>, <<"D", "a", "t", "e", "A", "d", "d">>, <<"D", "A", "T", "E">>, <<"N", "O", "W">>}
CallIntervals == {<<"M", "O", "N", "T", "H">>, <<"m", "o", "n", "t", "h">>, <<"Y", "E", "A", "R">>, <<"W", "E", "E", "K">>, <<"D", "A", "Y">>, <<"H", "O", "U", "R">>, <<"M", "I", "L", "I", "S", "E", "C", "O", "N", "D">>, <<"C", "E", "N", "T", "U", "R", "Y">>}
CallNumbers ==
    {NumberV(n) : n \in {0 - 14, 0 - 13, 0 - 12, 0 - 5, 0 - 1, 0, 1, 11, 12, 13, 25}}
    \cup {Rational(3, 2)}
CallDates ==
    {<<"2", "0", "2", "3", "-", "0", "1", "-", "1", "5">>, <<"2", "0", "2", "3", "-", "1", "2", "-", "3", "1">>, <<"2", "0", "2", "4", "-", "0", "2", "-", "2", "9">>, <<"2", "0", "2", "4", "-", "0", "3", "-", "3", "1">>, <<"2", "0", "2", "4", "-", "0", "6", "-", "1", "5", "T", "1", "0", ":", "3", "0", ":", "0", "0">>,
     <<"2", "0", "2", "3", "-", "1", "1", "-", "3", "0", "T", "2", "3", ":", "5", "9", ":", "5", "9", "Z">>, <<"2", "0", "2", "3", "-", "0", "2", "-", "3", "0">>, <<"x">>}

\* DATEADD(interval, n, date), DATEADD(interval, n, d) and
\* DATEADD(interval, n, date, '%Y-%m-%d'), and calls with too few arguments.
CallArguments ==
    {<<StringV(i), n, StringV(d)>> : i \in CallIntervals, n \in CallNumbers, d \in CallDates}
    \cup {<<StringV(<<"M", "O", "N", "T", "H">>), n, FieldNameArg(KeyD)>> : n \in CallNumbers}
    \cup {<<StringV(<<"M", "O", "N", "T", "H">>), n, StringV(d), StringV(DATE_ONLY_FORMAT)>> :
             n \in CallNumbers, d \in CallDates}
    \cup {<<StringV(d)>> : d \in CallDates}
    \cup {<<StringV(<<"M", "O", "N", "T", "H">>), NumberV(1)>>, <<NumberV(1), NumberV(1), StringV(<<"2", "0", "2", "3", "-", "0", "1", "-", "1", "5">>)>>}

InitCall ==
    /\ expression \in {<<FunctionEl(Function(name, args))>> :
                          name \in CallNames, args \in CallArguments}
    /\ evalResult = NotRun
    /\ fetched \in {<<PodHash([k \in {KeyD} |-> PodString(d)])>> :
                       d \in {<<"2", "0", "2", "4", "-", "0", "1", "-", "3", "1">>, <<"2", "0", "2", "3", "-", "0", "3", "-", "1", "5">>}}
    /\ records = <<>>
    /\ orderBy = <<>>
    /\ selectFields = <<>>
    /\ outcome = "NotRun"
    /\ request = NoRequest
    /\ CacheIdle
    /\ ParseIdle
    /\ LikeIdle
    /\ MarkdownIdle
    /\ RaceIdle

\* evaluate_expression on the call, for the record.
EvaluateCall ==
    /\ evalResult = NotRun
    /\ evalResult' = evaluate_expression(expression, fetched[1])
    /\ UNCHANGED <<expression, execVars, cacheVars, parseVars, likeVars, markdownVars, raceVars>>

NextCall == EvaluateCall

SpecCall == InitCall /\ [][NextCall]_vars

\* The call evaluated, and its arguments.
TheCall == expression[1].f
CallDate == argument_value(TheCall.args[3], fetched[1])

\* DATEADD with the interval MONTH, a whole number and a date that parses.
MonthCall ==
    /\ evalResult # NotRun
    /\ str_to_uppercase(TheCall.name) = <<"D", "A", "T", "E", "A", "D", "D">>
    /\ Len(TheCall.args) = 3
    /\ TheCall.args[1].t = "String"
    /\ str_to_uppercase(TheCall.args[1].v) = <<"M", "O", "N", "T", "H">>
    /\ TheCall.args[2].t = "Number"
    /\ TheCall.args[2].v[2] = 1
    /\ CallDate.t = "String"
    /\ parse_naive_datetime(CallDate.v, NoFormat).some

\* The month n calendar months away, counted in months since year 0.
MonthIndex(date, n) == 12 * date.year + (date.month - 1) + n
MonthsAway(date, n) ==
    [date EXCEPT !.year = MonthIndex(date, n) \div 12, !.month = (MonthIndex(date, n) % 12) + 1]

MovedByMonths(date, n) ==
    IF valid_date(MonthsAway(date, n).year, MonthsAway(date, n).month, date.day)
    THEN evalResult.ok /\ evalResult.val = StringV(format_datetime(MonthsAway(date, n)))
    ELSE ~evalResult.ok

\* C23: DATEADD of n months gives the date n calendar months away, in a
\* later or an earlier year where needed, with the same day and time, and
\* fails only when that date does not exist.
C23_MonthsCarryAndBorrow ==
    MonthCall =>
        MovedByMonths(parse_naive_datetime(CallDate.v, NoFormat).date, TheCall.args[2].v[1])


(***************************************************************************)
(* From the text of a WHERE clause to its value.  The parser's             *)
(* where_expression is handed to evaluate_expression as it is, on one      *)
(* record.                                                                 *)
(***************************************************************************)
ValidSelect == <<<<"S", "E", "L", "E", "C", "T">>, <<" ">>, <<"a">>, <<" ">>>>
ValidFrom == <<<<"F", "R", "O", "M">>, <<" ">>, <<"f">>, <<"(">>, <<"'", "d", "'">>, <<")">>, <<" ">>>>

\* The texts after the keyword WHERE: well-formed ones, and ones that break
\* off or go on with something the parser does not know.
ValidWheres ==
    {<<<<"a">>>>,
     <<<<"a">>, <<" ">>, <<"A", "N", "D">>, <<" ">>, <<"b">>>>,
     <<<<"(">>, <<"a">>, <<" ">>, <<"O", "R">>, <<" ">>, <<"b">>, <<")">>>>,
     <<<<"(">>, <<"(">>, <<"a">>, <<")">>, <<")">>>>,
     <<<<"(">>, <<" ">>, <<"a">>, <<" ">>, <<")">>, <<" ">>, <<"a", "n", "d">>, <<" ">>, <<"(">>, <<"b">>, <<")">>>>,
     <<<<"(">>, <<"a">>, <<" ">>, <<"O", "R">>, <<" ">>, <<"b">>, <<")">>, <<" ">>, <<"A", "N", "D">>, <<" ">>, <<"c">>>>,
     <<<<"a">>, <<" ">>, <<"A", "N", "D">>, <<" ">>, <<"(">>, <<"b">>, <<" ">>, <<"O", "R">>, <<" ">>, <<"(">>, <<"c">>, <<" ">>, <<"A", "N", "D">>, <<" ">>, <<"a">>, <<")">>, <<")">>>>,
     <<<<"a">>, <<" ">>, <<"O", "R">>, <<" ">>, <<"b">>, <<" ">>, <<"A", "N", "D">>, <<" ">>, <<"c">>>>,
     <<<<"n">>, <<" ">>, <<"+">>, <<" ">>, <<"1">>, <<" ">>, <<"*">>, <<" ">>, <<"2">>, <<" ">>, <<"=", "=">>, <<" ">>, <<"3">>>>,
     <<<<"(">>, <<"n">>, <<" ">>, <<"+">>, <<" ">>, <<"1">>, <<")">>, <<" ">>, <<"*">>, <<" ">>, <<"2">>, <<" ">>, <<">">>, <<" ">>, <<"n">>, <<" ">>, <<"*", "*">>, <<" ">>, <<"2">>>>,
     <<<<"n">>, <<" ">>, <<"/", "/">>, <<" ">>, <<"2">>, <<" ">>, <<"<", "=">>, <<" ">>, <<"n">>, <<" ">>, <<"/">>, <<" ">>, <<"2">>>>,
     <<<<"n">>, <<" ">>, <<"-">>, <<" ">>, <<"-", "1">>, <<" ">>, <<"!", "=">>, <<" ">>, <<"'", "x", "'">>>>,
     <<<<"n">>, <<"-">>, <<"1">>>>,
     <<<<"'", "x", "'">>, <<" ">>, <<"I", "N">>, <<" ">>, <<"a">>, <<" ">>, <<"O", "R">>, <<" ">>, <<"T", "R", "U", "E">>>>,
     <<<<"a">>, <<" ">>, <<"I", "N">>, <<" ">>, <<"g">>, <<"(">>, <<"b">>, <<")">>>>,
     <<<<"D", "A", "T", "E", "A", "D", "D">>, <<"(">>, <<"'", "D", "A", "Y", "'">>, <<",">>, <<" ">>, <<"1">>, <<",">>, <<" ">>, <<"'", "2", "0", "2", "4", "-", "0", "2", "-", "2", "8", "'">>, <<")">>, <<" ">>, <<"<">>, <<" ">>, <<"(">>, <<"'", "2", "0", "2", "4", "-", "0", "3", "-", "0", "1", "'">>, <<")">>>>,
     <<<<"a">>, <<" ">>, <<"=">>, <<" ">>, <<"1">>>>,
     <<<<"a">>, <<" ">>, <<"A", "N", "D">>>>,
     <<<<"a">>, <<" ">>, <<"A", "N", "D">>, <<" ">>, <<"O", "R">>, <<" ">>, <<"b">>>>,
     <<<<"a">>, <<" ">>, <<"b">>>>,
     <<<<"(">>, <<"a">>, <<" ">>, <<"O", "R">>, <<" ">>, <<"b">>>>,
     <<<<"(">>, <<"a">>, <<")">>, <<")">>>>,
     <<<<"a">>, <<")">>, <<" ">>, <<"A", "N", "D">>, <<" ">>, <<"(">>, <<"b">>>>,
     <<<<"(">>, <<")">>>>,
     <<<<"(">>, <<"a">>, <<" ">>, <<"b">>, <<")">>>>,
     <<<<"(">>, <<"a">>, <<")">>, <<" ">>, <<"(">>, <<"b">>, <<")">>>>,
     <<<<"A", "N", "D">>, <<" ">>, <<"a">>>>,
     <<<<"a">>, <<" ">>, <<"L", "I", "K", "E">>, <<" ">>, <<"'", "x", "'">>>>}

ValidTexts ==
    [select : {ValidSelect}, from : {ValidFrom},
     where : {<<<<"W", "H", "E", "R", "E">>, <<" ">>>> \o w : w \in ValidWheres},
     order : {<<>>, <<<<" ">>, <<"O", "R", "D", "E", "R", " ", "B", "Y">>, <<" ">>, <<"a">>>>}, trail : {<<>>}]

KeyC == <<"c">>

ValidRecords ==
    {PodHash([k \in {KeyA, KeyB, KeyC, KeyN} |->
                 IF k = KeyN THEN PodInteger(n) ELSE PodBoolean(k = KeyA)]) : n \in {1, 4}}
    \cup {PodHash([k \in {KeyA, KeyN} |->
                      IF k = KeyN THEN PodString(<<"x">>) ELSE PodString(<<"x", "y">>)]),
          PodHash(<<>>)}

InitValid ==
    /\ queryText \in ValidTexts
    /\ cursor = 0
    /\ parsed = NotParsed
    /\ expression = <<>>
    /\ evalResult = NotRun
    /\ fetched \in {<<r>> : r \in ValidRecords}
    /\ records = <<>>
    /\ orderBy = <<>>
    /\ selectFields = <<>>
    /\ outcome = "NotRun"
    /\ request = NoRequest
    /\ CacheIdle
    /\ LikeIdle
    /\ MarkdownIdle
    /\ RaceIdle

\* The parsed query's where_expression is evaluated on the record.
EvaluateParsed ==
    /\ HasParsed
    /\ parsed.ok
    /\ parsed.val.where_expression # <<>>
    /\ evalResult = NotRun
    /\ expression' = parsed.val.where_expression
    /\ \E r \in {evaluate_expression(parsed.val.where_expression, fetched[1])} :
           evalResult' = r
    /\ UNCHANGED <<execVars, cacheVars, parseVars, likeVars, markdownVars, raceVars>>

NextValid == Parse \/ EvaluateParsed

SpecValid == InitValid /\ [][NextValid]_vars

\* The errors of evaluate_expression that come from the shape of the token
\* sequence: no operator on the stack, fewer than two operands for an
\* operator, not exactly one value left at the end.
StructuralErrors == {"NoOperator", "NoOperand", "QueueLen"}

\* C28: evaluate_expression never fails on a WHERE expression the parser
\* accepted because of the expression's shape: a missing operand, an
\* unmatched bracket or a value left over.
C28_AcceptedIsWellFormed ==
    evalResult # NotRun => (evalResult.ok \/ evalResult.err \notin StructuralErrors)

\* An accepted expression with brackets and two operators was evaluated.
C28_Witness ==
    /\ evalResult # NotRun
    /\ evalResult.ok
    /\ Len(expression) = 7
    /\ expression[1] = OpenedBracket
    /\ expression[5] = ClosedBracket
    /\ expression[6] = OperatorEl("And")


(***************************************************************************)
(* The bodies parse_markdown_content is run on.                            *)
(***************************************************************************)
Inlines == {TextOf(<<"a">>), InlineLink, WikiLink, AliasedWikiLink, Autolink}

SeqsUpTo(S, n) == UNION {[1..m -> S] : m \in 1..n}

LeafItems ==
    {ListItem(marker, <<TextOf(<<"a">>)>>, <<>>) : marker \in {"None", "Open", "Done"}}
    \cup {ListItem("Open", <<TextOf(<<"a", " ">>), InlineLink>>, <<>>)}

InnerLists == SeqsUpTo({ListItem(marker, <<TextOf(<<"a">>)>>, <<>>) : marker \in {"None", "Open"}}, MaxItems)

Items ==
    LeafItems
    \cup {ListItem(marker, <<TextOf(<<"a">>)>>, <<l>>) : marker \in {"None", "Open"}, l \in InnerLists}
    \cup {ListItem("Open", <<TextOf(<<"a">>)>>,
               <<<<ListItem("Open", <<TextOf(<<"b">>)>>, <<<<ListItem("Done", <<TextOf(<<"c">>)>>, <<>>)>>>>)>>,
                 <<ListItem("Open", <<TextOf(<<"d">>)>>, <<>>)>>>>)}

OpenItem == ListItem("Open", <<TextOf(<<"a">>)>>, <<>>)
NestedOpenItem == ListItem("Open", <<TextOf(<<"a">>)>>, <<<<OpenItem>>>>)

Bodies ==
    {<<Paragraph(inlines)>> : inlines \in SeqsUpTo(Inlines, MaxInlines)}
    \cup {<<List(items)>> : items \in SeqsUpTo(Items, MaxItems)}
    \cup {<<List(first), Paragraph(<<TextOf(<<"a">>)>>), List(second)>> :
             first \in {<<OpenItem>>, <<NestedOpenItem>>},
             second \in {<<OpenItem>>, <<NestedOpenItem>>}}
    \cup {<<Heading(level, <<"T">>), Paragraph(<<ReferenceLink>>),
            CodeBlock(fenced, lang, <<"s", "e", "l", "e", "c", "t", " ", "a", " ">>), Heading(1, <<"U">>)>> :
             level \in {1, 2}, fenced \in BOOLEAN, lang \in {<<"k", "r", "a", "f", "n", "a">>, <<"r", "u", "s", "t">>}}

BodyFile == [k \in {KeyPath} |-> PodString(<<"d", "1", "/", "a", ".", "m", "d">>)]

InitMarkdown ==
    /\ document \in Bodies
    /\ fileInfo = NotExtracted
    /\ expression = <<>>
    /\ evalResult = NotRun
    /\ ExecIdle
    /\ CacheIdle
    /\ ParseIdle
    /\ LikeIdle
    /\ RaceIdle

\* parse_markdown_content on the events of the body.
ParseMarkdownContent ==
    /\ ~fileInfo.done
    /\ \E r \in {parse_markdown_content(Events(document), BodyFile)} :
           fileInfo' = [done |-> TRUE, title |-> r.title, code_blocks |-> r.code_blocks,
                        links |-> r.links, tasks |-> r.tasks]
    /\ UNCHANGED <<document, evalVars, execVars, cacheVars, parseVars, likeVars, raceVars>>

NextMarkdown == ParseMarkdownContent

SpecMarkdown == InitMarkdown /\ [][NextMarkdown]_vars

\* The links of a body in document order.
RECURSIVE LinksOfInlines(_)
LinksOfInlines(inlines) ==
    IF inlines = <<>> THEN <<>>
    ELSE (IF Head(inlines).k = "Link" THEN <<Head(inlines)>> ELSE <<>>)
         \o LinksOfInlines(Tail(inlines))

RECURSIVE LinksOfItems(_)
RECURSIVE LinksOfLists(_)
LinksOfItems(items) ==
    IF items = <<>> THEN <<>>
    ELSE LinksOfInlines(Head(items).inlines) \o LinksOfLists(Head(items).lists)
         \o LinksOfItems(Tail(items))

LinksOfLists(lists) ==
    IF lists = <<>> THEN <<>> ELSE LinksOfItems(Head(lists)) \o LinksOfLists(Tail(lists))

RECURSIVE LinksOf(_)
LinksOf(body) ==
    IF body = <<>> THEN <<>>
    ELSE (CASE Head(body).k = "Paragraph" -> LinksOfInlines(Head(body).inlines)
            [] Head(body).k = "List" -> LinksOfItems(Head(body).items)
            [] OTHER -> <<>>)
         \o LinksOf(Tail(body))

\* The inline links and the wiki links without alias among them.
RECURSIVE Recorded(_)
Recorded(links) ==
    IF links = <<>> THEN <<>>
    ELSE (IF Head(links).link_type \in {"Inline", "WikiLink"} THEN <<Head(links)>> ELSE <<>>)
         \o Recorded(Tail(links))

\* C21: the link records are those of the inline links and of the wiki
\* links without alias, one each and none for another kind of link, and
\* their ord values are 1, 2, ... in document order.
C21_OneRecordPerInlineOrWikiLink ==
    fileInfo.done =>
        /\ Len(fileInfo.links) = Len(Recorded(LinksOf(document)))
        /\ \A n \in 1..Len(fileInfo.links) :
               /\ fileInfo.links[n].v[KeyOrd] = PodInteger(n)
               /\ n <= Len(Recorded(LinksOf(document))) =>
                      fileInfo.links[n].v[KeyUrl] =
                          PodString(Recorded(LinksOf(document))[n].dest_url)

\* The task items of a body in document order: where each is (block, item,
\* nested list, item, ...) and its position in each of the lists around it.
RECURSIVE TasksOfItems(_, _, _, _)
RECURSIVE TasksOfLists(_, _, _, _)
TasksOfItems(items, n, where, positions) ==
    IF n > Len(items) THEN <<>>
    ELSE (IF items[n].marker = "None" THEN <<>>
          ELSE <<[where |-> where \o <<n>>, positions |-> positions \o <<n>>]>>)
         \o TasksOfLists(items[n].lists, 1, where \o <<n>>, positions \o <<n>>)
         \o TasksOfItems(items, n + 1, where, positions)

TasksOfLists(lists, n, where, positions) ==
    IF n > Len(lists) THEN <<>>
    ELSE TasksOfItems(lists[n], 1, where \o <<n>>, positions)
         \o TasksOfLists(lists, n + 1, where, positions)

RECURSIVE TasksFrom(_, _)
TasksFrom(body, n) ==
    IF n > Len(body) THEN <<>>
    ELSE (IF body[n].k = "List" THEN TasksOfItems(body[n].items, 1, <<n>>, <<>>) ELSE <<>>)
         \o TasksFrom(body, n + 1)

TasksOf(body) == TasksFrom(body, 1)

Dotted(positions) ==
    PodString(join_dots([n \in DOMAIN positions |-> usize_to_string(positions[n])]))

\* C22: there is one task record for each task item; its ord is the item's
\* position in each of the lists around it, from the outermost on, joined by
\* dots, and its parent is the ord without its last position, Null for an
\* item of a top-level list.
C22_OrdIsThePositions ==
    fileInfo.done =>
        /\ Len(fileInfo.tasks) = Len(TasksOf(document))
        /\ \A n \in 1..Len(fileInfo.tasks) :
               n <= Len(TasksOf(document)) =>
                   /\ fileInfo.tasks[n].v[KeyOrd] = Dotted(TasksOf(document)[n].positions)
                   /\ IF Len(TasksOf(document)[n].positions) = 1
                      THEN fileInfo.tasks[n].v[KeyParent].t = "Null"
                      ELSE /\ fileInfo.tasks[n].v[KeyParent].t = "String"
                           /\ fileInfo.tasks[n].v[KeyParent] =
                                  Dotted(SubSeq(TasksOf(document)[n].positions, 1,
                                                Len(TasksOf(document)[n].positions) - 1))

\* The records whose ord is the parent of the n-th record.
ParentsOf(tasks, n) ==
    {m \in (1..Len(tasks)) \ {n} : tasks[m].v[KeyOrd] = tasks[n].v[KeyParent]}

\* The task items the list of the n-th task item is nested in (none when
\* that item has no task marker).
EnclosingOf(items, n) ==
    {m \in 1..Len(items) :
        items[m].where = SubSeq(items[n].where, 1, Len(items[n].where) - 2)}

\* C30: a task record's parent, when it is not Null, is the ord of exactly
\* one other task record of the file: the record of the task item the
\* record's list is nested in.
C30_ParentIsTheEnclosingTask ==
    (fileInfo.done /\ Len(fileInfo.tasks) = Len(TasksOf(document))) =>
        \A n \in 1..Len(fileInfo.tasks) :
            fileInfo.tasks[n].v[KeyParent].t # "Null" =>
                /\ Cardinality(ParentsOf(fileInfo.tasks, n)) = 1
                /\ ParentsOf(fileInfo.tasks, n) = EnclosingOf(TasksOf(document), n)


(***************************************************************************)
(* Links between files.  The files have bodies with links; a file is       *)
(* edited between ingestions, so that an ingestion finds some files in the *)
(* cache and parses the others.                                            *)
(***************************************************************************)
LinkContents == {3, 6, 7, 8}

InitLinks ==
    /\ fs \in [Paths -> {File(19, c, TRUE) : c \in LinkContents}]
    /\ cacheFile = EmptyMap
    /\ cacheDirOk = TRUE
    /\ prevRun = NoRun
    /\ lastRun = NoRun
    /\ changes = 0
    /\ elsewhere = [p \in Paths |-> NoFile]
    /\ expression = <<>>
    /\ evalResult = NotRun
    /\ ExecIdle
    /\ ParseIdle
    /\ LikeIdle
    /\ MarkdownIdle
    /\ RaceIdle

\* A file is edited: other content, a later modification time.
EditFile ==
    /\ changes < MaxChanges
    /\ \E p \in Paths, c \in LinkContents :
            /\ c # fs[p].content
            /\ fs' = [fs EXCEPT ![p] = File(fs[p].mtime + 1, c, TRUE)]
    /\ changes' = changes + 1
    /\ UNCHANGED <<cacheFile, cacheDirOk, prevRun, lastRun, elsewhere, evalVars, execVars,
                   parseVars, likeVars, markdownVars, raceVars>>

NextLinks == Ingest \/ EditFile

SpecLinks == InitLinks /\ [][NextLinks]_vars

\* What an ingestion of dir returns when the cache is empty.
ColdReturned(dir) == get_markdown_files_info(dir, fs, EmptyMap, TRUE).returned

\* C26: an ingestion returns the link records, with the paths the links
\* are resolved to, that an ingestion with an empty cache returns for the
\* same files on disk.
C26_ColdAndWarmLinksAgree ==
    [][Ingest =>
        /\ DOMAIN lastRun'.returned = DOMAIN ColdReturned(lastRun'.dir)
        /\ \A p \in DOMAIN lastRun'.returned :
               lastRun'.returned[p].links = ColdReturned(lastRun'.dir)[p].links]_vars


(***************************************************************************)
(* Ingestions step by step.  get_markdown_files_info lists the files,      *)
(* loads the cache and picks the files to parse; parse_file reads a file's *)
(* content and then, in get_file_info, its metadata; at the end the cache  *)
(* is saved and the records are returned.  Other invocations and the       *)
(* editing of files take their steps in between.                           *)
(***************************************************************************)
NoReading == [path |-> "none", content |-> 0]

Idle ==
    [pc |-> "idle", dir |-> "none", files |-> {}, cache |-> EmptyMap, cold |-> FALSE,
     parsing |-> {}, todo |-> {}, reading |-> NoReading, results |-> EmptyMap,
     wrote |-> FALSE, written |-> EmptyMap, returned |-> EmptyMap]

\* The files that are parsed: all with an empty cache, else the new and the
\* modified ones.
parsed_files(files, cache, disk) ==
    IF cache = EmptyMap THEN files ELSE files_to_parse(files, cache, disk)

\* get_markdown_files_info up to the call of parse_files.
Start(i) ==
    /\ invocations[i].pc = "idle"
    /\ \E dir \in Dirs :
        \E cache \in {load_cache(cacheFile, cacheDirOk)} :
            invocations' =
                [invocations EXCEPT ![i] =
                    [@ EXCEPT !.pc = "parse",
                              !.dir = dir,
                              !.files = get_markdown_files(dir, fs),
                              !.cache = cache,
                              !.cold = (cache = EmptyMap),
                              !.parsing = parsed_files(get_markdown_files(dir, fs), cache, fs),
                              !.todo = parsed_files(get_markdown_files(dir, fs), cache, fs)]]
    /\ UNCHANGED <<evalVars, execVars, cacheVars, parseVars, likeVars, markdownVars>>

\* parse_file: fs::read_to_string(path); a file that cannot be read is left
\* out of the results.
ReadContent(i) ==
    /\ invocations[i].pc = "parse"
    /\ invocations[i].reading = NoReading
    /\ \E p \in invocations[i].todo :
        invocations' =
            [invocations EXCEPT ![i] =
                IF fs[p].exists /\ fs[p].readable
                THEN [@ EXCEPT !.reading = [path |-> p, content |-> fs[p].content]]
                ELSE [@ EXCEPT !.todo = @ \ {p}]]
    /\ UNCHANGED <<evalVars, execVars, cacheVars, parseVars, likeVars, markdownVars>>

\* parse_file from get_file_info on: the content read before, the metadata
\* as they are now.
ReadInfo(i) ==
    /\ invocations[i].pc = "parse"
    /\ invocations[i].reading # NoReading
    /\ \E p \in {invocations[i].reading.path} :
        invocations' =
            [invocations EXCEPT ![i] =
                [@ EXCEPT !.results =
                              MapMerge(@, [q \in {p} |->
                                  parse_file(p, [fs EXCEPT ![p].content =
                                                     invocations[i].reading.content])]),
                          !.todo = @ \ {p},
                          !.reading = NoReading]]
    /\ UNCHANGED <<evalVars, execVars, cacheVars, parseVars, likeVars, markdownVars>>

\* The map an invocation saves and returns from: the results with their
\* link paths, merged into the loaded cache unless that was empty.
merged_info(inv) ==
    IF inv.cold THEN add_link_paths(inv.results)
    ELSE MapMerge(inv.cache, add_link_paths(inv.results))

saves(inv) == inv.cold \/ inv.parsing # {}

\* get_markdown_files_info after parse_files: save_cache and the return.
Save(i) ==
    /\ invocations[i].pc = "parse"
    /\ invocations[i].reading = NoReading
    /\ invocations[i].todo = {}
    /\ \E info \in {merged_info(invocations[i])} :
        /\ cacheFile' = IF saves(invocations[i]) THEN save_cache(cacheFile, info, cacheDirOk)
                        ELSE cacheFile
        /\ invocations' =
            [invocations EXCEPT ![i] =
                [@ EXCEPT !.pc = "done",
                          !.wrote = saves(invocations[i]) /\ cacheDirOk,
                          !.written = IF saves(invocations[i]) /\ cacheDirOk THEN info ELSE @,
                          !.returned = IF invocations[i].cold THEN info
                                       ELSE MapRetain(info, invocations[i].files)]]
    /\ UNCHANGED <<fs, cacheDirOk, prevRun, lastRun, changes, elsewhere, evalVars, execVars,
                   parseVars, likeVars, markdownVars>>

\* Every invocation has returned.
AllDone == \A i \in DOMAIN invocations : invocations[i].pc = "done"

\* A file is modified: the other content, a later modification time.
ModifyFile ==
    /\ changes < MaxChanges
    /\ \E p \in Paths, c \in Contents :
            /\ fs[p].exists
            /\ c # fs[p].content
            /\ fs' = [fs EXCEPT ![p] = File(fs[p].mtime + 1, c, fs[p].readable)]
    /\ changes' = changes + 1
    /\ UNCHANGED <<cacheFile, cacheDirOk, prevRun, lastRun, elsewhere, evalVars, execVars,
                   parseVars, likeVars, markdownVars, raceVars>>

NoneStarted == \A i \in DOMAIN invocations : invocations[i].pc = "idle"

\* An ingestion before or after the invocations; a modification likewise.
IngestAlone == (NoneStarted \/ AllDone) /\ Ingest
ModifyBetween == (NoneStarted \/ AllDone) /\ ModifyFile

InitRace ==
    /\ invocations = [i \in {"first", "second"} |-> Idle]
    /\ fs \in {disk \in [Paths -> {NoFile, File(19, 1, TRUE)}] :
                   disk["d1/a.md"].exists /\ disk["d2/c.md"].exists}
    /\ cacheFile = EmptyMap
    /\ cacheDirOk = TRUE
    /\ prevRun = NoRun
    /\ lastRun = NoRun
    /\ changes = 0
    /\ elsewhere = [p \in Paths |-> NoFile]
    /\ expression = <<>>
    /\ evalResult = NotRun
    /\ ExecIdle
    /\ ParseIdle
    /\ LikeIdle
    /\ MarkdownIdle

NextRace ==
    \/ \E i \in DOMAIN invocations : Start(i)
    \/ \E i \in DOMAIN invocations : ReadContent(i)
    \/ \E i \in DOMAIN invocations : ReadInfo(i)
    \/ \E i \in DOMAIN invocations : Save(i)
    \/ IngestAlone
    \/ ModifyBetween

SpecRace == InitRace /\ [][NextRace]_vars

\* The records of the files of dir as they are on disk.
CurrentRecords(dir) == parse_files(get_markdown_files(dir, fs), fs)

\* An invocation has just saved the cache.
Saved(i) == invocations[i].pc = "parse" /\ invocations'[i].pc = "done" /\ invocations'[i].wrote

InitEdit ==
    /\ invocations = [i \in {"first"} |-> Idle]
    /\ fs \in {disk \in [Paths -> {NoFile, File(19, 1, TRUE)}] :
                   disk["d1/a.md"].exists /\ disk["d2/c.md"].exists}
    /\ cacheFile = EmptyMap
    /\ cacheDirOk = TRUE
    /\ prevRun = NoRun
    /\ lastRun = NoRun
    /\ changes = 0
    /\ elsewhere = [p \in Paths |-> NoFile]
    /\ expression = <<>>
    /\ evalResult = NotRun
    /\ ExecIdle
    /\ ParseIdle
    /\ LikeIdle
    /\ MarkdownIdle

NextEdit ==
    \/ \E i \in DOMAIN invocations : Start(i)
    \/ \E i \in DOMAIN invocations : ReadContent(i)
    \/ \E i \in DOMAIN invocations : ReadInfo(i)
    \/ \E i \in DOMAIN invocations : Save(i)
    \/ IngestAlone
    \/ ModifyFile

SpecEdit == InitEdit /\ [][NextEdit]_vars

\* C25: an ingestion that starts after a file was modified returns the
\* file's content as it is since then, at whichever moment of an earlier
\* ingestion the file was modified.
C25_ChangesAreNeverMasked ==
    [][lastRun' # lastRun =>
        \A p \in DOMAIN lastRun'.returned : lastRun'.returned[p] = parse_file(p, fs)]_vars

====
